---- MODULE Spec2Model ----
(***************************************************************************)
(* A model of the research orchestration pipeline of                      *)
(* finance_research_assistant: the retry wrapper (src/utils/retry.py),     *)
(* the token budget manager and the orchestrator                           *)
(* (src/research/orchestrator.py), the academic search client              *)
(* (src/research/scholar_search.py) and the literature review synthesizer  *)
(* (src/research/literature_review.py).                                    *)
(*                                                                         *)
(* Each component has one record variable holding the locals of the call   *)
(* being executed, and one specification (SpecRetry, SpecTruncate,         *)
(* SpecLit, SpecResearch) that runs calls of that component on bounded     *)
(* inputs while the other components stay idle.                            *)
(*                                                                         *)
(* Strings the code only tests for containment or equality are modelled    *)
(* as sequences of tokens; strings the code only measures are modelled by  *)
(* their lengths.                                                          *)
(***************************************************************************)
EXTENDS Integers, Sequences, FiniteSets, TLC

VARIABLES rw, tn, ac, rr, fc, en, ga, api, ws

vars == <<rw, tn, ac, rr, fc, en, ga, api, ws>>

\* The value of a Python name bound to None.
None == "None"

\* A component that is not running in the specification at hand.
Idle == [pc |-> "idle"]

Last(s) == s[Len(s)]

Range(s) == {s[i] : i \in DOMAIN s}

(***************************************************************************)
(* Retry wrapper: retry_with_backoff(...)(func) in src/utils/retry.py      *)
(***************************************************************************)

\* Largest max_retries the wrapper is run with.
MaxRetries == 3

\* An error message is the sequence of its words.
ErrorMsgs ==
    { <<"invalid", "argument">>,
      <<"service", "unavailable">>,
      <<"503", "Service", "Unavailable">>,
      <<"The", "model", "is", "Overloaded">>,
      <<"429", "RESOURCE_EXHAUSTED">>,
      <<"UNAVAILABLE">> }

\* What one invocation of the wrapped function does: return a value or raise.
Returns(v) == [kind |-> "return", value |-> v, msg |-> <<>>]

Raises(m) == [kind |-> "raise", value |-> None, msg |-> m]

FuncValues == {"ok"}

FuncOutcomes == {Returns(v) : v \in FuncValues} \cup {Raises(m) : m \in ErrorMsgs}

\* str.lower() on the words that occur in ErrorMsgs.
LowerWord(w) ==
    CASE w = "Overloaded" -> "overloaded"
      [] w = "Service" -> "service"
      [] w = "Unavailable" -> "unavailable"
      [] w = "UNAVAILABLE" -> "unavailable"
      [] w = "RESOURCE_EXHAUSTED" -> "resource_exhausted"
      [] w = "The" -> "the"
      [] OTHER -> w

Lower(error_msg) == [i \in DOMAIN error_msg |-> LowerWord(error_msg[i])]

\* marker in error_msg
Contains(error_msg, marker) == \E i \in DOMAIN error_msg : error_msg[i] = marker

\* retry.py 47-53
is_retryable(error_msg) ==
    \/ Contains(error_msg, "503")
    \/ Contains(Lower(error_msg), "overloaded")
    \/ Contains(error_msg, "UNAVAILABLE")
    \/ Contains(error_msg, "429")
    \/ Contains(error_msg, "RESOURCE_EXHAUSTED")

\* The guard of the re-raise with the retryable test dropped.
GivesUpOnlyWhenExhausted(retryable, attempt, max_retries) == attempt = max_retries

\* The guard of the re-raise with the attempt bound one too low.
GivesUpOneEarly(retryable, attempt, max_retries) ==
    ~retryable \/ attempt = max_retries - 1

\* retry.py 55: if not is_retryable or attempt == max_retries: raise
GivesUp(retryable, attempt, max_retries) == ~retryable \/ attempt = max_retries

\* delay += backoff_factor: a delay that grows by addition.
Plus(delay, factor) ==
    <<delay[1] * factor[2] + factor[1] * delay[2], delay[2] * factor[2]>>

\* A delay in seconds is the fraction <<numerator, denominator>>.
Times(delay, factor) == <<delay[1] * factor[1], delay[2] * factor[2]>>

\* (initial_delay, backoff_factor) of the wrappers the repository builds:
\* the defaults (1.0, 2.0), Semantic Scholar (2.0, 2.0), Gemini (3.0, 2.5).
RetryConfigs ==
    { [initial_delay |-> <<1, 1>>, backoff_factor |-> <<2, 1>>],
      [initial_delay |-> <<2, 1>>, backoff_factor |-> <<2, 1>>],
      [initial_delay |-> <<3, 1>>, backoff_factor |-> <<5, 2>>] }

\* wrapper(*args, **kwargs) entered: retry.py 36-37, and the first range() test.
WrapperEntered(max_retries, cfg) ==
    [pc |-> IF 0 < max_retries + 1 THEN "try" ELSE "exit",
     max_retries |-> max_retries,
     initial_delay |-> cfg.initial_delay,
     backoff_factor |-> cfg.backoff_factor,
     attempt |-> 0,
     delay |-> cfg.initial_delay,
     last_exception |-> None,
     invoked |-> <<>>,
     slept |-> <<>>,
     result |-> None]

\* retry.py 41: the invocation returns, and so does the wrapper.
InvokeReturns ==
    /\ rw.pc = "try"
    /\ \E v \in FuncValues :
          rw' = [rw EXCEPT !.pc = "returned",
                           !.invoked = Append(@, Returns(v)),
                           !.result = Returns(v)]
    /\ UNCHANGED <<tn, ac, rr, fc, en, ga, api, ws>>

\* retry.py 42-57: the invocation raises and the wrapper re-raises.
InvokeRaisesFinal ==
    /\ rw.pc = "try"
    /\ \E m \in ErrorMsgs :
          /\ GivesUp(is_retryable(m), rw.attempt, rw.max_retries)
          /\ rw' = [rw EXCEPT !.pc = "raised",
                              !.invoked = Append(@, Raises(m)),
                              !.last_exception = Raises(m),
                              !.result = Raises(m)]
    /\ UNCHANGED <<tn, ac, rr, fc, en, ga, api, ws>>

\* retry.py 42-62: the invocation raises and the wrapper goes on to sleep.
InvokeRaisesRetry ==
    /\ rw.pc = "try"
    /\ \E m \in ErrorMsgs :
          /\ ~GivesUp(is_retryable(m), rw.attempt, rw.max_retries)
          /\ rw' = [rw EXCEPT !.pc = "sleep",
                              !.invoked = Append(@, Raises(m)),
                              !.last_exception = Raises(m)]
    /\ UNCHANGED <<tn, ac, rr, fc, en, ga, api, ws>>

\* retry.py 63-64 and the next range() test of line 39.
Sleep ==
    /\ rw.pc = "sleep"
    /\ rw' = [rw EXCEPT !.slept = Append(@, rw.delay),
                        !.delay = Times(@, rw.backoff_factor),
                        !.attempt = @ + 1,
                        !.pc = IF rw.attempt + 1 < rw.max_retries + 1
                               THEN "try" ELSE "exit"]
    /\ UNCHANGED <<tn, ac, rr, fc, en, ga, api, ws>>

\* retry.py 66-69: the loop ran out.
LoopExit ==
    /\ rw.pc = "exit"
    /\ rw' = [rw EXCEPT !.pc = "raised",
                        !.result = IF rw.last_exception # None
                                   THEN rw.last_exception
                                   ELSE Raises(<<"Unexpected", "retry", "loop", "exit">>)]
    /\ UNCHANGED <<tn, ac, rr, fc, en, ga, api, ws>>

InitRetry ==
    /\ \E max_retries \in (0 - 1)..MaxRetries, cfg \in RetryConfigs :
          rw = WrapperEntered(max_retries, cfg)
    /\ tn = Idle
    /\ ac = Idle
    /\ rr = Idle
    /\ fc = Idle
    /\ en = Idle
    /\ ga = Idle
    /\ api = Idle
    /\ ws = Idle

NextRetry ==
    \/ InvokeReturns
    \/ InvokeRaisesFinal
    \/ InvokeRaisesRetry
    \/ Sleep
    \/ LoopExit

SpecRetry == InitRetry /\ [][NextRetry]_vars

\* The wrapper runs in one thread that is never suspended for ever.
FairSpecRetry == SpecRetry /\ WF_vars(NextRetry)

WrapperDone == rw.pc \in {"returned", "raised"}

(***************************************************************************)
(* Token budget manager: _truncate_notes in src/research/orchestrator.py   *)
(*                                                                         *)
(* A note is modelled by the sizes json.dumps sees: len, the length of its *)
(* serialization with ensure_ascii=False; extra, the characters the        *)
(* \uXXXX escapes of its non-ASCII characters add with ensure_ascii=True;  *)
(* esc, the number of quotes and backslashes among the first               *)
(* NOTE_SUMMARIZE_THRESHOLD characters of its serialization, each of which *)
(* json.dumps escapes again inside "_excerpt". trimmed and excerpt are the *)
(* "_trimmed" flag and the length of the "_excerpt" string (0: no key).    *)
(***************************************************************************)

AVG_CHARS_PER_TOKEN == 4

SOFT_CAP_TOKENS == 11000

HARD_CAP_TOKENS == 12000

NOTE_SUMMARIZE_THRESHOLD == 2500

\* len("…[truncated]")
TruncatedMarkerLen == 12

\* Longest list of notes _truncate_notes is run on.
MaxNotes == 3

Note(len, extra, esc) ==
    [len |-> len, extra |-> extra, esc |-> esc, trimmed |-> FALSE, excerpt |-> 0]

\* Notes around the per-note threshold, notes that fill the soft cap alone
\* (a list of one note of 44001 characters serializes to 44003), and a note
\* of 8000 Cyrillic letters.
NoteKinds ==
    { Note(1200, 0, 12), Note(2500, 0, 12), Note(2501, 0, 12),
      Note(21000, 0, 30), Note(44001, 0, 30), Note(44002, 0, 30),
      Note(9000, 40000, 8) }

NoteLists == UNION { [1..n -> NoteKinds] : n \in 0..MaxNotes }

RECURSIVE SumLen(_, _)
SumLen(lens, n) == IF n = 0 THEN 0 ELSE lens[n] + SumLen(lens, n - 1)

\* len(json.dumps(list)): "[" + ", ".join(items) + "]"
JsonListLen(lens) ==
    IF Len(lens) = 0 THEN 2 ELSE 2 + SumLen(lens, Len(lens)) + 2 * (Len(lens) - 1)

\* len(json.dumps(note, ensure_ascii=False)); the markers add
\* ', "_trimmed": true' (18), ', "_excerpt": ' (14) and the quoted excerpt.
NoteLen(note) ==
    note.len + (IF note.trimmed THEN 18 + 14 + 2 + note.excerpt + note.esc ELSE 0)

\* len(json.dumps(note)), with ensure_ascii=True
NoteAsciiLen(note) == NoteLen(note) + note.extra

\* len(json.dumps(notes, ensure_ascii=False))
DumpsLen(notes) == JsonListLen([i \in DOMAIN notes |-> NoteLen(notes[i])])

\* len(json.dumps(notes))
DumpsAsciiLen(notes) == JsonListLen([i \in DOMAIN notes |-> NoteAsciiLen(notes[i])])

\* orchestrator.py 28-29, on the length of the text
estimate_tokens(length) == length \div AVG_CHARS_PER_TOKEN

\* orchestrator.py 41-45: the copy of a note, with the markers when its
\* serialization is longer than the threshold.
NoteCopy(note) ==
    IF NoteLen(note) > NOTE_SUMMARIZE_THRESHOLD
    THEN [note EXCEPT !.trimmed = TRUE,
                      !.excerpt = NOTE_SUMMARIZE_THRESHOLD + TruncatedMarkerLen]
    ELSE note

\* orchestrator.py 35-37 returning copies of the notes, as the loop makes
\* them, in the place of the input.
ReturnCopies ==
    /\ tn.pc = "check"
    /\ estimate_tokens(DumpsAsciiLen(tn.notes)) <= SOFT_CAP_TOKENS
    /\ tn' = [tn EXCEPT !.pc = "done",
                        !.result = [i \in DOMAIN tn.notes |-> NoteCopy(tn.notes[i])]]
    /\ UNCHANGED <<rw, ac, rr, fc, en, ga, api, ws>>

\* orchestrator.py 35-37: the input is within the soft cap and is returned.
ReturnUnchanged ==
    /\ tn.pc = "check"
    /\ estimate_tokens(DumpsAsciiLen(tn.notes)) <= SOFT_CAP_TOKENS
    /\ tn' = [tn EXCEPT !.pc = "done", !.result = tn.notes]
    /\ UNCHANGED <<rw, ac, rr, fc, en, ga, api, ws>>

\* orchestrator.py 35-39: the input is over the soft cap.
StartTrimming ==
    /\ tn.pc = "check"
    /\ estimate_tokens(DumpsAsciiLen(tn.notes)) > SOFT_CAP_TOKENS
    /\ tn' = [tn EXCEPT !.pc = "loop", !.i = 1, !.trimmed = <<>>]
    /\ UNCHANGED <<rw, ac, rr, fc, en, ga, api, ws>>

\* orchestrator.py 40-47: one iteration of the loop without the break of
\* lines 48-49.
TrimNoteWithoutBreak ==
    /\ tn.pc = "loop"
    /\ tn.i <= Len(tn.notes)
    /\ tn' = [tn EXCEPT !.trimmed = Append(tn.trimmed, NoteCopy(tn.notes[tn.i])),
                        !.i = @ + 1]
    /\ UNCHANGED <<rw, ac, rr, fc, en, ga, api, ws>>

\* orchestrator.py 40-49: one iteration of the loop, which ends the loop
\* (break) when the accumulated list is over the hard cap.
TrimNote ==
    /\ tn.pc = "loop"
    /\ tn.i <= Len(tn.notes)
    /\ LET trimmed == Append(tn.trimmed, NoteCopy(tn.notes[tn.i]))
       IN  tn' = [tn EXCEPT !.trimmed = trimmed,
                            !.i = IF estimate_tokens(DumpsLen(trimmed)) > HARD_CAP_TOKENS
                                  THEN Len(tn.notes) + 1 ELSE @ + 1,
                            !.broke = estimate_tokens(DumpsLen(trimmed)) > HARD_CAP_TOKENS]
    /\ UNCHANGED <<rw, ac, rr, fc, en, ga, api, ws>>

\* orchestrator.py 50
ReturnTrimmed ==
    /\ tn.pc = "loop"
    /\ tn.i > Len(tn.notes)
    /\ tn' = [tn EXCEPT !.pc = "done", !.result = tn.trimmed]
    /\ UNCHANGED <<rw, ac, rr, fc, en, ga, api, ws>>

InitTruncate ==
    /\ \E notes \in NoteLists :
          tn = [pc |-> "check", notes |-> notes, i |-> 0, trimmed |-> <<>>,
                broke |-> FALSE, result |-> None, input |-> notes, pass |-> 1,
                notes_json |-> 0, clipped |-> FALSE, brief |-> ""]
    /\ rw = Idle
    /\ ac = Idle
    /\ rr = Idle
    /\ fc = Idle
    /\ en = Idle
    /\ ga = Idle
    /\ api = Idle
    /\ ws = Idle

NextTruncate == ReturnUnchanged \/ StartTrimming \/ TrimNote \/ ReturnTrimmed

SpecTruncate == InitTruncate /\ [][NextTruncate]_vars

\* orchestrator.py 32: _truncate_notes applied to the list it returned;
\* input stays the list the first application was given.
TruncateAgain ==
    /\ tn.pc = "done"
    /\ tn.pass = 1
    /\ tn' = [tn EXCEPT !.pc = "check", !.notes = tn.result, !.i = 0,
                        !.trimmed = <<>>, !.broke = FALSE, !.result = None,
                        !.pass = 2]
    /\ UNCHANGED <<rw, ac, rr, fc, en, ga, api, ws>>

NextTruncateTwice == NextTruncate \/ TruncateAgain

\* _truncate_notes applied once and then once more to its result.
SpecTruncateTwice == InitTruncate /\ [][NextTruncateTwice]_vars

\* orchestrator.py 25: int(SOFT_CAP_TOKENS * AVG_CHARS_PER_TOKEN)
MAX_BRIEF_CHARS == SOFT_CAP_TOKENS * AVG_CHARS_PER_TOKEN

\* orchestrator.py 72-74: len(notes_json) after the clamp, for a
\* serialization of length characters.
ClippedLen(length) ==
    IF length > MAX_BRIEF_CHARS THEN MAX_BRIEF_CHARS + TruncatedMarkerLen ELSE length

\* orchestrator.py 71-82: build_brief_from_notes serializes what
\* _truncate_notes returned, clamps it and puts it in the prompt.
PromptBuilt ==
    /\ tn.pc = "done"
    /\ tn.pass = 1
    /\ tn' = [tn EXCEPT !.pc = "prompt",
                        !.notes_json = ClippedLen(DumpsLen(tn.result)),
                        !.clipped = DumpsLen(tn.result) > MAX_BRIEF_CHARS]
    /\ UNCHANGED <<rw, ac, rr, fc, en, ga, api, ws>>

\* orchestrator.py 88-92: the model answers; resp.text or "".
PromptAnswered ==
    /\ tn.pc = "prompt"
    /\ \E brief \in {"", "brief"} : tn' = [tn EXCEPT !.pc = "answered", !.brief = brief]
    /\ UNCHANGED <<rw, ac, rr, fc, en, ga, api, ws>>

\* orchestrator.py 67, 88-91: generate_content raises and the retry wrapper
\* gives up.
PromptFails ==
    /\ tn.pc = "prompt"
    /\ tn' = [tn EXCEPT !.pc = "failed"]
    /\ UNCHANGED <<rw, ac, rr, fc, en, ga, api, ws>>

NextBrief == NextTruncate \/ PromptBuilt \/ PromptAnswered \/ PromptFails

\* build_brief_from_notes on bounded lists of notes.
SpecBrief == InitTruncate /\ [][NextBrief]_vars

(***************************************************************************)
(* Academic search client (AcademicSearch.search in                        *)
(* src/research/scholar_search.py) and literature review synthesizer       *)
(* (run_literature_review in src/research/literature_review.py).           *)
(*                                                                         *)
(* A call of a function decorated with a retry wrapper is modelled by its  *)
(* end: the wrapper returns what an invocation returned or raises what an  *)
(* invocation raised.                                                      *)
(***************************************************************************)

\* Longest list of papers one source returns.
MaxPapers == 2

\* A text is the sequence of its pieces: words, " " for white space and
\* "'" for a quote character.
Topics == { <<"zeeliin", " ", "ersdel">> }

\* (title, doi) of the papers a source finds; doi None is a missing DOI.
PaperKinds ==
    { [title |-> "T1", doi |-> None], [title |-> "T1", doi |-> ""],
      [title |-> "T1", doi |-> "10.1/a"], [title |-> "T2", doi |-> "10.1/a"],
      [title |-> "T1", doi |-> "10.1/b"] }

\* scholar_search.py 100-111, 191-202: the k-th AcademicPaper a source
\* builds; pid stands for the identity of the object.
AcademicPaper(source, k, kind) ==
    [pid |-> <<source, k>>, title |-> kind.title, doi |-> kind.doi, source |-> source]

SourceResults(source) ==
    UNION { { [k \in 1..n |-> AcademicPaper(source, k, kinds[k])] :
              kinds \in [1..n -> PaperKinds] } : n \in 0..MaxPapers }

\* Python truth of a str | None
Truthy(x) == x # None /\ x # ""

\* Python truth of a text or a list
NonEmpty(s) == s # <<>>

\* A dedupe that takes every DOI other than None for a key.
DeduplicateKeyedOnEmptyDoi(papers) ==
    LET keep(i) == papers[i].doi = None
                   \/ \A j \in 1..(i - 1) : papers[j].doi # papers[i].doi
        F[i \in 0..Len(papers)] ==
            IF i = 0 THEN <<>>
            ELSE IF keep(i) THEN Append(F[i - 1], papers[i]) ELSE F[i - 1]
    IN  F[Len(papers)]

\* scholar_search.py 283-294: seen_dois after the first i papers is the set
\* of their truthy DOIs, so a paper is kept when its DOI is falsy or is not
\* the DOI of an earlier paper.
Deduplicate(papers) ==
    LET seen_dois(i) == {papers[j].doi : j \in {k \in 1..i : Truthy(papers[k].doi)}}
        F[i \in 0..Len(papers)] ==
            IF i = 0 THEN <<>>
            ELSE IF Truthy(papers[i].doi)
                 THEN IF papers[i].doi \notin seen_dois(i - 1)
                      THEN Append(F[i - 1], papers[i]) ELSE F[i - 1]
                 ELSE Append(F[i - 1], papers[i])
    IN  F[Len(papers)]

\* s.strip(chars) on a text
RECURSIVE StripLeft(_, _)
StripLeft(s, chars) ==
    IF s # <<>> /\ Head(s) \in chars THEN StripLeft(Tail(s), chars) ELSE s

RECURSIVE StripRight(_, _)
StripRight(s, chars) ==
    IF s # <<>> /\ Last(s) \in chars
    THEN StripRight(SubSeq(s, 1, Len(s) - 1), chars) ELSE s

Strip(s, chars) == StripRight(StripLeft(s, chars), chars)

\* What the translation model answers (resp.text).
TranslationTexts ==
    { <<>>, <<"credit", " ", "risk">>, <<" ", "'", "credit", " ", "risk", "'", " ">> }

\* literature_review.py 159-164
Translated(text, topic) ==
    Strip(Strip(IF NonEmpty(text) THEN text ELSE topic, {" "}), {"'"})

\* The fallback summary built from the topic in place of the query.
NoPapersSummaryOfTopic(search_query, topic) ==
    << <<"No academic papers were found for this topic (searched: '">>, topic,
       <<"'). The research will proceed with web sources only.">> >>

\* literature_review.py 271: the pieces of the f-string, each a text
NoPapersSummary(search_query, topic) ==
    << <<"No academic papers were found for this topic (searched: '">>, search_query,
       <<"'). The research will proceed with web sources only.">> >>

\* literature_review.py 17-24
\* A review that is born approved.
LiteratureReviewApproved(papers, summary, themes, gaps, approved, search_query) ==
    [papers |-> papers, summary |-> summary, themes |-> themes, gaps |-> gaps,
     approved |-> TRUE, search_query |-> search_query]

LiteratureReview(papers, summary, themes, gaps, approved, search_query) ==
    [papers |-> papers, summary |-> summary, themes |-> themes, gaps |-> gaps,
     approved |-> approved, search_query |-> search_query]

\* What synthesize_literature returns (literature_review.py 210-220).
Syntheses ==
    { [summary |-> << <<"Unable to synthesize literature review.">> >>,
       themes |-> <<>>, gaps |-> <<>>],
      [summary |-> << <<"review">> >>, themes |-> <<"t1">>, gaps |-> <<"g1">>] }

\* The sources argument of AcademicSearch.search; <<>> is None or [].
SourcesArgs ==
    { <<>>, <<"openalex">>, <<"semantic_scholar">>,
      <<"semantic_scholar", "openalex">> }

\* scholar_search.py 263
EffectiveSources(sources) ==
    IF NonEmpty(sources) THEN Range(sources) ELSE {"openalex", "semantic_scholar"}

\* An except clause that lets the OpenAlex failure out of search.
ReRaised == "raised"

\* scholar_search.py 271-272: the failure is logged and search goes on.
AfterOpenAlexFailure == "semantic_scholar"

\* scholar_search.py 279-280
AfterSemanticScholarFailure == "dedupe"

\* literature_review.py 250-254: the translation call returns.
TranslateReturns ==
    /\ ac.pc = "translate"
    /\ \E text \in TranslationTexts :
          ac' = [ac EXCEPT !.pc = "openalex",
                           !.llm_calls = Append(@, "translate_topic_for_search"),
                           !.search_query = Translated(text, ac.topic),
                           !.query = Translated(text, ac.topic)]
    /\ UNCHANGED <<rw, tn, rr, fc, en, ga, api, ws>>

\* literature_review.py 250-254: the translation call raises.
TranslateRaises ==
    /\ ac.pc = "translate"
    /\ ac' = [ac EXCEPT !.pc = "raised",
                        !.llm_calls = Append(@, "translate_topic_for_search")]
    /\ UNCHANGED <<rw, tn, rr, fc, en, ga, api, ws>>

\* scholar_search.py 267: "openalex" is not among the sources.
OpenAlexSkipped ==
    /\ ac.pc = "openalex"
    /\ "openalex" \notin EffectiveSources(ac.sources)
    /\ ac' = [ac EXCEPT !.pc = "semantic_scholar"]
    /\ UNCHANGED <<rw, tn, rr, fc, en, ga, api, ws>>

\* scholar_search.py 268-270
OpenAlexReturns ==
    /\ ac.pc = "openalex"
    /\ "openalex" \in EffectiveSources(ac.sources)
    /\ \E papers \in SourceResults("openalex") :
          ac' = [ac EXCEPT !.pc = "semantic_scholar",
                           !.queried = Append(@, <<"openalex", ac.query>>),
                           !.found = [@ EXCEPT !.openalex = papers],
                           !.all_papers = @ \o papers]
    /\ UNCHANGED <<rw, tn, rr, fc, en, ga, api, ws>>

\* scholar_search.py 268-272
OpenAlexFails ==
    /\ ac.pc = "openalex"
    /\ "openalex" \in EffectiveSources(ac.sources)
    /\ ac' = [ac EXCEPT !.pc = AfterOpenAlexFailure,
                        !.queried = Append(@, <<"openalex", ac.query>>),
                        !.failed = @ \cup {"openalex"}]
    /\ UNCHANGED <<rw, tn, rr, fc, en, ga, api, ws>>

\* scholar_search.py 275
SemanticScholarSkipped ==
    /\ ac.pc = "semantic_scholar"
    /\ "semantic_scholar" \notin EffectiveSources(ac.sources)
    /\ ac' = [ac EXCEPT !.pc = "dedupe"]
    /\ UNCHANGED <<rw, tn, rr, fc, en, ga, api, ws>>

\* scholar_search.py 276-278
SemanticScholarReturns ==
    /\ ac.pc = "semantic_scholar"
    /\ "semantic_scholar" \in EffectiveSources(ac.sources)
    /\ \E papers \in SourceResults("semantic_scholar") :
          ac' = [ac EXCEPT !.pc = "dedupe",
                           !.queried = Append(@, <<"semantic_scholar", ac.query>>),
                           !.found = [@ EXCEPT !.semantic_scholar = papers],
                           !.all_papers = @ \o papers]
    /\ UNCHANGED <<rw, tn, rr, fc, en, ga, api, ws>>

\* scholar_search.py 276-280
SemanticScholarFails ==
    /\ ac.pc = "semantic_scholar"
    /\ "semantic_scholar" \in EffectiveSources(ac.sources)
    /\ ac' = [ac EXCEPT !.pc = AfterSemanticScholarFailure,
                        !.queried = Append(@, <<"semantic_scholar", ac.query>>),
                        !.failed = @ \cup {"semantic_scholar"}]
    /\ UNCHANGED <<rw, tn, rr, fc, en, ga, api, ws>>

\* scholar_search.py 282-294: search returns, to its caller when there is one.
DeduplicateAndReturn ==
    /\ ac.pc = "dedupe"
    /\ ac' = [ac EXCEPT !.pc = IF ac.entry = "search" THEN "done" ELSE "papers",
                        !.unique_papers = Deduplicate(ac.all_papers)]
    /\ UNCHANGED <<rw, tn, rr, fc, en, ga, api, ws>>

\* literature_review.py 267-276
NoPapersFound ==
    /\ ac.pc = "papers"
    /\ ac.unique_papers = <<>>
    /\ ac' = [ac EXCEPT !.pc = "done",
                        !.review = LiteratureReview(<<>>,
                                       NoPapersSummary(ac.search_query, ac.topic), <<>>,
                                       <<"Unable to identify gaps - no academic papers found">>,
                                       FALSE, ac.search_query)]
    /\ UNCHANGED <<rw, tn, rr, fc, en, ga, api, ws>>

\* literature_review.py 279-295: the synthesis call returns.
SynthesizeReturns ==
    /\ ac.pc = "papers"
    /\ ac.unique_papers # <<>>
    /\ \E synthesis \in Syntheses :
          ac' = [ac EXCEPT !.pc = "done",
                           !.llm_calls = Append(@, "synthesize_literature"),
                           !.review = LiteratureReview(ac.unique_papers, synthesis.summary,
                                          synthesis.themes, synthesis.gaps, FALSE,
                                          ac.search_query)]
    /\ UNCHANGED <<rw, tn, rr, fc, en, ga, api, ws>>

\* literature_review.py 279-286: the synthesis call raises.
SynthesizeRaises ==
    /\ ac.pc = "papers"
    /\ ac.unique_papers # <<>>
    /\ ac' = [ac EXCEPT !.pc = "raised",
                        !.llm_calls = Append(@, "synthesize_literature")]
    /\ UNCHANGED <<rw, tn, rr, fc, en, ga, api, ws>>

\* The locals of a call; entry tells which function was called.
AcademicCall(entry, topic, query, sources) ==
    [pc |-> IF entry = "search" THEN "openalex" ELSE "translate",
     entry |-> entry, topic |-> topic, query |-> query, sources |-> sources,
     search_query |-> <<>>, queried |-> <<>>, failed |-> {},
     found |-> [openalex |-> <<>>, semantic_scholar |-> <<>>],
     all_papers |-> <<>>, unique_papers |-> <<>>, llm_calls |-> <<>>,
     review |-> None]

\* Either AcademicSearch.search(query, sources=...) is called, or
\* run_literature_review(topic, ...), which calls search with its defaults.
InitLit ==
    /\ \/ \E sources \in SourcesArgs :
             ac = AcademicCall("search", <<>>, <<"credit", " ", "risk">>, sources)
       \/ \E topic \in Topics :
             ac = AcademicCall("run_literature_review", topic, <<>>, <<>>)
    /\ rw = Idle
    /\ tn = Idle
    /\ rr = Idle
    /\ fc = Idle
    /\ en = Idle
    /\ ga = Idle
    /\ api = Idle
    /\ ws = Idle

NextLit ==
    \/ TranslateReturns
    \/ TranslateRaises
    \/ OpenAlexSkipped
    \/ OpenAlexReturns
    \/ OpenAlexFails
    \/ SemanticScholarSkipped
    \/ SemanticScholarReturns
    \/ SemanticScholarFails
    \/ DeduplicateAndReturn
    \/ NoPapersFound
    \/ SynthesizeReturns
    \/ SynthesizeRaises

SpecLit == InitLit /\ [][NextLit]_vars

(***************************************************************************)
(* Research orchestrator: run_research and run_research_with_literature in *)
(* src/research/orchestrator.py.                                           *)
(*                                                                         *)
(* A JSON value is a record [t, v, s]: t its type, v its content (the      *)
(* items of a list, the value under "queries" of an object, with           *)
(* has_queries telling whether the key is there) and s the pieces of a     *)
(* string.                                                                 *)
(***************************************************************************)

\* Most search hits all the queries of one run return together.
MaxHits == 2

\* orchestrator.py 117: queries[:6]
QUERY_LIMIT == 6

\* orchestrator.py 124: len(text) < 400
MIN_TEXT_CHARS == 400

JNull == [t |-> "null", v |-> <<>>, s |-> <<>>, has_queries |-> FALSE]

JNum == [t |-> "number", v |-> <<>>, s |-> <<>>, has_queries |-> FALSE]

JStr(pieces) == [t |-> "string", v |-> <<>>, s |-> pieces, has_queries |-> FALSE]

JList(items) == [t |-> "list", v |-> items, s |-> <<>>, has_queries |-> FALSE]

JObj == [t |-> "object", v |-> <<>>, s |-> <<>>, has_queries |-> FALSE]

JPlan(queries) == [t |-> "object", v |-> queries, s |-> <<>>, has_queries |-> TRUE]

\* The JSON documents the planner is taken to answer with: not an object,
\* an object without "queries", and objects whose "queries" is null, an
\* empty list, a string, a number, a list of numbers, and lists of one, two
\* and seven strings.
PlanDocuments ==
    << JList(<<>>), JNull, JObj,
       JPlan(JNull), JPlan(JList(<<>>)), JPlan(JStr(<<"a", "b">>)), JPlan(JNum),
       JPlan(JList(<<JNum, JNum>>)),
       JPlan(JList(<<JStr(<<"q1">>)>>)),
       JPlan(JList(<<JStr(<<"q1">>), JStr(<<"q2">>)>>)),
       JPlan(JList(<<JStr(<<"q1">>), JStr(<<"q2">>), JStr(<<"q3">>), JStr(<<"q4">>),
                     JStr(<<"q5">>), JStr(<<"q6">>), JStr(<<"q7">>)>>)) >>

\* resp.text of the planner: nothing, prose, a JSON document in a code
\* fence, or a bare JSON document.
PlanTexts ==
    << [form |-> "empty", doc |-> JNull], [form |-> "prose", doc |-> JNull],
       [form |-> "fenced", doc |-> JPlan(JList(<<JStr(<<"q1">>)>>))] >>
    \o [i \in DOMAIN PlanDocuments |-> [form |-> "json", doc |-> PlanDocuments[i]]]

ResearchTopics == { <<"zeeliin", " ", "ersdel">> }

\* orchestrator.py 65, 99: f"{topic} financial markets credit policy analysis"
CannedQuery(topic) == JStr(topic \o <<" financial markets credit policy analysis">>)

\* orchestrator.py 62-65: json.loads(resp.text or "{}"), and the plan of the
\* except clause when it raises.
ParsedPlan(text, topic) ==
    CASE text.form = "empty" -> JObj
      [] text.form = "json" -> text.doc
      [] OTHER -> JPlan(JList(<<CannedQuery(topic)>>))

\* Python truth of a JSON value (numbers here are not 0).
JTruthy(x) ==
    CASE x.t = "null" -> FALSE
      [] x.t = "number" -> TRUE
      [] x.t = "object" -> x.has_queries
      [] x.t = "string" -> x.s # <<>>
      [] OTHER -> x.v # <<>>

\* plan.get("queries") raises AttributeError unless plan is a dict.
HasGet(plan) == plan.t = "object"

\* plan.get("queries")
GetQueries(plan) == IF plan.has_queries THEN plan.v ELSE JNull

\* orchestrator.py 99: plan.get("queries") or [canned]
QueriesOrCanned(plan, topic) ==
    IF JTruthy(GetQueries(plan)) THEN GetQueries(plan)
    ELSE JList(<<CannedQuery(topic)>>)

\* queries[:6] raises TypeError on a number.
Sliceable(queries) == queries.t \in {"list", "string"}

\* for q in queries: every item, however many there are.
UnslicedQueries(queries) ==
    IF queries.t = "string"
    THEN [i \in DOMAIN queries.s |-> JStr(<<queries.s[i]>>)]
    ELSE queries.v

\* for q in queries[:6]: the items of a list, the characters of a string.
SlicedQueries(queries) ==
    LET items == IF queries.t = "string"
                 THEN [i \in DOMAIN queries.s |-> JStr(<<queries.s[i]>>)]
                 ELSE queries.v
    IN  SubSeq(items, 1, IF Len(items) < QUERY_LIMIT THEN Len(items) ELSE QUERY_LIMIT)

\* The strings that occur as references, in the order of Python's str
\* comparison (by code point).
RefOrder ==
    << "Uploaded Files", "https://a.example/1", "https://doi.org/10.1/a",
       "https://doi.org/10.1/b", "https://openalex.org/W1" >>

Rank(ref) == CHOOSE i \in DOMAIN RefOrder : RefOrder[i] = ref

StrLess(a, b) == Rank(a) < Rank(b)

\* f"https://doi.org/{paper['doi']}"
DoiLink(doi) ==
    CASE doi = "10.1/a" -> "https://doi.org/10.1/a"
      [] doi = "10.1/b" -> "https://doi.org/10.1/b"

\* The url of a search hit; "" is a hit without one.
HitUrls == {"", "https://a.example/1", "https://doi.org/10.1/a"}

\* The paper dicts of a stored review.
LitPaper(doi, url) == [doi |-> doi, url |-> url]

PaperA == LitPaper("10.1/a", "https://doi.org/10.1/a")

\* The reviews run_research_with_literature is given, each approved or not.
Reviews ==
    { [approved |-> a, papers |-> ps, themes |-> <<"t1">>, gaps |-> <<"g1">>,
       summary |-> << <<"review">> >>] :
        a \in BOOLEAN,
        ps \in { <<>>,
                 <<PaperA>>,
                 <<LitPaper("10.1/b", "https://openalex.org/W1"), PaperA,
                   LitPaper(None, "https://openalex.org/W1"),
                   LitPaper("", "https://a.example/1"), LitPaper(None, ""), PaperA>> } }

\* The literature_review argument; NoReview is None.
NoReview ==
    [approved |-> FALSE, papers |-> <<>>, themes |-> <<>>, gaps |-> <<>>,
     summary |-> <<>>, given |-> FALSE]

Given(review) ==
    [approved |-> review.approved, papers |-> review.papers, themes |-> review.themes,
     gaps |-> review.gaps, summary |-> review.summary, given |-> TRUE]

\* A gate that only tests that a review was passed.
IncludesAnyReview(literature_review) == literature_review.given

\* orchestrator.py 176: if literature_review and literature_review.approved
IncludesReview(literature_review) ==
    literature_review.given /\ literature_review.approved

\* orchestrator.py 178-185
LitNote(literature_review) ==
    [source |-> "literature_review", url |-> "academic://literature-review",
     source_url |-> None, at |-> <<0, 0>>,
     claims |-> literature_review.themes \o literature_review.gaps,
     paper_count |-> Len(literature_review.papers)]

\* orchestrator.py 107-113, 197-203
ContextNote ==
    [source |-> "uploaded_files", url |-> "local://uploaded-files",
     source_url |-> None, at |-> <<0, 0>>,
     claims |-> <<"User-provided reference materials">>, paper_count |-> 0]

\* notes.py 46-60: the note extract_notes returns for the r-th hit of the
\* q-th query; source_url is the url passed in.
WebNote(url, q, r) ==
    [source |-> None, url |-> None, source_url |-> url, at |-> <<q, r>>,
     claims |-> <<>>, paper_count |-> 0]

\* orchestrator.py 189-193 without the url of a paper that has no DOI
RECURSIVE PaperRefsDoiOnly(_)
PaperRefsDoiOnly(papers) ==
    IF papers = <<>> THEN <<>>
    ELSE (IF Truthy(Head(papers).doi) THEN <<DoiLink(Head(papers).doi)>> ELSE <<>>)
             \o PaperRefsDoiOnly(Tail(papers))

\* orchestrator.py 189-193
RECURSIVE PaperRefs(_)
PaperRefs(papers) ==
    IF papers = <<>> THEN <<>>
    ELSE LET paper == Head(papers)
         IN  (IF Truthy(paper.doi) THEN <<DoiLink(paper.doi)>>
              ELSE IF Truthy(paper.url) THEN <<paper.url>>
              ELSE <<>>) \o PaperRefs(Tail(papers))

\* The context note put in front of the notes gathered so far.
NotesWithContextFirst(notes) == <<ContextNote>> \o notes

\* orchestrator.py 114, 204: notes.append(context_note)
NotesWithContext(notes) == Append(notes, ContextNote)

RECURSIVE InsertSorted(_, _)
InsertSorted(sorted, ref) ==
    IF sorted = <<>> THEN <<ref>>
    ELSE IF StrLess(Head(sorted), ref)
         THEN <<Head(sorted)>> \o InsertSorted(Tail(sorted), ref)
         ELSE <<ref>> \o sorted

\* sorted(refs), without the set
RECURSIVE SortedList(_)
SortedList(refs) ==
    IF refs = <<>> THEN <<>> ELSE InsertSorted(SortedList(Tail(refs)), Head(refs))

\* set(refs), as the list of the first occurrences
RECURSIVE SetOf(_)
SetOf(refs) ==
    IF refs = <<>> THEN <<>>
    ELSE LET rest == SetOf(SubSeq(refs, 1, Len(refs) - 1))
         IN  IF Last(refs) \in Range(rest) THEN rest ELSE Append(rest, Last(refs))

\* sorted(refs): the set forgotten
SortedWithoutSet(refs) == SortedList(refs)

\* orchestrator.py 134, 224: sorted(set(refs))
SortedSet(refs) == SortedList(SetOf(refs))

\* The locals of a call of fn; text is what fetch_and_clean last returned.
ResearchCall(fn, topic, literature_review, additional_context) ==
    [pc |-> "plan", fn |-> fn, topic |-> topic,
     literature_review |-> literature_review,
     additional_context |-> additional_context,
     plan_text |-> [form |-> "empty", doc |-> JNull],
     plan |-> JNull, queries |-> JNull, q |-> 0, results |-> <<>>, r |-> 0,
     hits |-> 0, text |-> [text |-> FALSE, len |-> 0],
     notes |-> <<>>, refs |-> <<>>, literature_included |-> FALSE,
     calls |-> <<>>, error |-> None, result |-> None]

\* The step after plan.get(...): run_research has no literature block.
AfterQueries(fn) == IF fn = "run_research" THEN "context" ELSE "literature"

\* orchestrator.py 98, 166: plan_queries returns the parsed plan.
PlanReturnsStep(run, next) ==
    /\ run.pc = "plan"
    /\ \E i \in DOMAIN PlanTexts :
          next = [run EXCEPT !.pc = "queries",
                           !.calls = Append(@, "plan_queries"),
                           !.plan_text = PlanTexts[i],
                           !.plan = ParsedPlan(PlanTexts[i], run.topic)]

PlanReturns == PlanReturnsStep(rr, rr') /\ UNCHANGED <<rw, tn, ac, fc, en, ga, api, ws>>

\* orchestrator.py 98, 166: plan_queries raises what its LLM call raised.
PlanRaisesStep(run, next) ==
    /\ run.pc = "plan"
    /\ next = [run EXCEPT !.pc = "raised",
                        !.calls = Append(@, "plan_queries"),
                        !.error = "plan_queries"]

PlanRaises == PlanRaisesStep(rr, rr') /\ UNCHANGED <<rw, tn, ac, fc, en, ga, api, ws>>

\* orchestrator.py 99, 167
QueriesChosenStep(run, next) ==
    /\ run.pc = "queries"
    /\ HasGet(run.plan)
    /\ next = [run EXCEPT !.pc = AfterQueries(run.fn),
                        !.queries = QueriesOrCanned(run.plan, run.topic)]

QueriesChosen == QueriesChosenStep(rr, rr') /\ UNCHANGED <<rw, tn, ac, fc, en, ga, api, ws>>

\* orchestrator.py 99, 167: the plan is no dict.
QueriesRaisesStep(run, next) ==
    /\ run.pc = "queries"
    /\ ~HasGet(run.plan)
    /\ next = [run EXCEPT !.pc = "raised", !.error = "AttributeError"]

QueriesRaises == QueriesRaisesStep(rr, rr') /\ UNCHANGED <<rw, tn, ac, fc, en, ga, api, ws>>

\* orchestrator.py 175-193: the approved review becomes the first note.
LiteratureIncludedStep(run, next) ==
    /\ run.pc = "literature"
    /\ IncludesReview(run.literature_review)
    /\ next = [run EXCEPT !.pc = "context",
                        !.literature_included = TRUE,
                        !.notes = Append(@, LitNote(run.literature_review)),
                        !.refs = @ \o PaperRefs(run.literature_review.papers)]

LiteratureIncluded == LiteratureIncludedStep(rr, rr') /\ UNCHANGED <<rw, tn, ac, fc, en, ga, api, ws>>

\* orchestrator.py 175-186 making a note of a review that is not approved.
LiteratureNotedStep(run, next) ==
    /\ run.pc = "literature"
    /\ ~IncludesReview(run.literature_review)
    /\ next = [run EXCEPT !.pc = "context",
                          !.notes = Append(@, LitNote(run.literature_review))]

\* orchestrator.py 175-176: no review, or one that is not approved.
LiteratureSkippedStep(run, next) ==
    /\ run.pc = "literature"
    /\ ~IncludesReview(run.literature_review)
    /\ next = [run EXCEPT !.pc = "context"]

LiteratureSkipped == LiteratureSkippedStep(rr, rr') /\ UNCHANGED <<rw, tn, ac, fc, en, ga, api, ws>>

\* orchestrator.py 106-115, 196-205
ContextAddedStep(run, next) ==
    /\ run.pc = "context"
    /\ run.additional_context > 0
    /\ next = [run EXCEPT !.pc = "loop",
                        !.notes = NotesWithContext(@),
                        !.refs = Append(@, "Uploaded Files")]

ContextAdded == ContextAddedStep(rr, rr') /\ UNCHANGED <<rw, tn, ac, fc, en, ga, api, ws>>

\* orchestrator.py 106, 196: additional_context is empty.
ContextSkippedStep(run, next) ==
    /\ run.pc = "context"
    /\ run.additional_context = 0
    /\ next = [run EXCEPT !.pc = "loop"]

ContextSkipped == ContextSkippedStep(rr, rr') /\ UNCHANGED <<rw, tn, ac, fc, en, ga, api, ws>>

\* orchestrator.py 117, 208: the loop over queries[:6] is entered.
LoopEnteredStep(run, next) ==
    /\ run.pc = "loop"
    /\ Sliceable(run.queries)
    /\ next = [run EXCEPT !.pc = IF SlicedQueries(run.queries) = <<>> THEN "brief" ELSE "search",
                        !.q = 1]

LoopEntered == LoopEnteredStep(rr, rr') /\ UNCHANGED <<rw, tn, ac, fc, en, ga, api, ws>>

\* orchestrator.py 117, 208: queries cannot be sliced.
LoopRaisesStep(run, next) ==
    /\ run.pc = "loop"
    /\ ~Sliceable(run.queries)
    /\ next = [run EXCEPT !.pc = "raised", !.error = "TypeError"]

LoopRaises == LoopRaisesStep(rr, rr') /\ UNCHANGED <<rw, tn, ac, fc, en, ga, api, ws>>

\* The position after the r-th hit of the q-th query, results being that
\* query's hits: the next hit, the next query, or the brief.
Advance(run, results, r) ==
    IF r < Len(results)
    THEN [run EXCEPT !.pc = "hit", !.results = results, !.r = r + 1]
    ELSE [run EXCEPT !.pc = IF run.q < Len(SlicedQueries(run.queries))
                            THEN "search" ELSE "brief",
                     !.q = @ + 1, !.results = <<>>, !.r = 0]

\* orchestrator.py 118, 209: search.search(q, max_results=5) returns.
SearchReturnsStep(run, next) ==
    /\ run.pc = "search"
    /\ \E n \in 0..(MaxHits - run.hits) :
          \E results \in [1..n -> HitUrls] :
              next = Advance([run EXCEPT !.calls = Append(@, "search"),
                                       !.hits = @ + n], results, 0)

SearchReturns == SearchReturnsStep(rr, rr') /\ UNCHANGED <<rw, tn, ac, fc, en, ga, api, ws>>

\* orchestrator.py 118, 209: search.search raises (tavily_search.py 36-41).
SearchRaisesStep(run, next) ==
    /\ run.pc = "search"
    /\ next = [run EXCEPT !.pc = "raised",
                        !.calls = Append(@, "search"),
                        !.error = "search"]

SearchRaises == SearchRaisesStep(rr, rr') /\ UNCHANGED <<rw, tn, ac, fc, en, ga, api, ws>>

\* orchestrator.py 120-122, 211-213: a hit without url
HitWithoutUrlStep(run, next) ==
    /\ run.pc = "hit"
    /\ ~Truthy(run.results[run.r])
    /\ next = Advance(run, run.results, run.r)

HitWithoutUrl == HitWithoutUrlStep(rr, rr') /\ UNCHANGED <<rw, tn, ac, fc, en, ga, api, ws>>

\* What fetch_and_clean returns: None (no text) or a text of len characters.
FetchOutcomes ==
    { [text |-> FALSE, len |-> 0], [text |-> TRUE, len |-> 0],
      [text |-> TRUE, len |-> MIN_TEXT_CHARS - 1],
      [text |-> TRUE, len |-> MIN_TEXT_CHARS] }

\* orchestrator.py 124, 215: if not text or len(text) < 400
TooShort(fetched) == ~fetched.text \/ fetched.len = 0 \/ fetched.len < MIN_TEXT_CHARS

\* orchestrator.py 123-125, 214-216: nothing or too little was fetched.
HitWithoutTextStep(run, next) ==
    /\ run.pc = "hit"
    /\ Truthy(run.results[run.r])
    /\ \E fetched \in FetchOutcomes :
          /\ TooShort(fetched)
          /\ next = Advance([run EXCEPT !.calls = Append(@, "fetch_and_clean"),
                                      !.text = fetched],
                           run.results, run.r)

HitWithoutText == HitWithoutTextStep(rr, rr') /\ UNCHANGED <<rw, tn, ac, fc, en, ga, api, ws>>

\* orchestrator.py 123-130, 214-220: the hit gives a note and a reference.
HitExtractedStep(run, next) ==
    /\ run.pc = "hit"
    /\ Truthy(run.results[run.r])
    /\ \E fetched \in FetchOutcomes :
          /\ ~TooShort(fetched)
          /\ next = Advance([run EXCEPT !.calls = @ \o <<"fetch_and_clean", "extract_notes">>,
                                      !.text = fetched,
                                      !.notes = Append(@, WebNote(run.results[run.r], run.q, run.r)),
                                      !.refs = Append(@, run.results[run.r])],
                           run.results, run.r)

HitExtracted == HitExtractedStep(rr, rr') /\ UNCHANGED <<rw, tn, ac, fc, en, ga, api, ws>>

\* orchestrator.py 126, 217: extract_notes raises what its LLM call raised.
ExtractRaisesStep(run, next) ==
    /\ run.pc = "hit"
    /\ Truthy(run.results[run.r])
    /\ \E fetched \in FetchOutcomes :
          /\ ~TooShort(fetched)
          /\ next = [run EXCEPT !.pc = "raised",
                              !.calls = @ \o <<"fetch_and_clean", "extract_notes">>,
                              !.text = fetched,
                              !.error = "extract_notes"]

ExtractRaises == ExtractRaisesStep(rr, rr') /\ UNCHANGED <<rw, tn, ac, fc, en, ga, api, ws>>

\* What the brief model answers: nothing or a brief.
Briefs == {"", "brief"}

\* orchestrator.py 135, 226-232: literature_included is a key of the result
\* of run_research_with_literature only (has_literature_included).
ResearchResult(run, brief) ==
    [plan |-> run.plan, notes |-> run.notes, brief |-> brief,
     references |-> SortedSet(run.refs),
     has_literature_included |-> run.fn = "run_research_with_literature",
     literature_included |-> run.literature_included]

\* orchestrator.py 133-135, 223-232
BriefReturnsStep(run, next) ==
    /\ run.pc = "brief"
    /\ \E brief \in Briefs :
          next = [run EXCEPT !.pc = "done",
                           !.calls = Append(@, "build_brief_from_notes"),
                           !.result = ResearchResult(run, brief)]

BriefReturns == BriefReturnsStep(rr, rr') /\ UNCHANGED <<rw, tn, ac, fc, en, ga, api, ws>>

\* orchestrator.py 133, 223: build_brief_from_notes raises.
BriefRaisesStep(run, next) ==
    /\ run.pc = "brief"
    /\ next = [run EXCEPT !.pc = "raised",
                        !.calls = Append(@, "build_brief_from_notes"),
                        !.error = "build_brief_from_notes"]

BriefRaises == BriefRaisesStep(rr, rr') /\ UNCHANGED <<rw, tn, ac, fc, en, ga, api, ws>>

\* The length of additional_context: none, or more than the 2000 characters
\* the context note keeps.
Contexts == {0, 2600}

InitResearch ==
    /\ \E topic \in ResearchTopics, additional_context \in Contexts :
          \/ rr = ResearchCall("run_research", topic, NoReview, additional_context)
          \/ \E review \in {NoReview} \cup {Given(x) : x \in Reviews} :
                rr = ResearchCall("run_research_with_literature", topic, review,
                                  additional_context)
    /\ rw = Idle
    /\ tn = Idle
    /\ ac = Idle
    /\ fc = Idle
    /\ en = Idle
    /\ ga = Idle
    /\ api = Idle
    /\ ws = Idle

\* One step of a run, from run to next.
ResearchStep(run, next) ==
    \/ PlanReturnsStep(run, next)
    \/ PlanRaisesStep(run, next)
    \/ QueriesChosenStep(run, next)
    \/ QueriesRaisesStep(run, next)
    \/ LiteratureIncludedStep(run, next)
    \/ LiteratureSkippedStep(run, next)
    \/ ContextAddedStep(run, next)
    \/ ContextSkippedStep(run, next)
    \/ LoopEnteredStep(run, next)
    \/ LoopRaisesStep(run, next)
    \/ SearchReturnsStep(run, next)
    \/ SearchRaisesStep(run, next)
    \/ HitWithoutUrlStep(run, next)
    \/ HitWithoutTextStep(run, next)
    \/ HitExtractedStep(run, next)
    \/ ExtractRaisesStep(run, next)
    \/ BriefReturnsStep(run, next)
    \/ BriefRaisesStep(run, next)

NextResearch ==
    \/ PlanReturns
    \/ PlanRaises
    \/ QueriesChosen
    \/ QueriesRaises
    \/ LiteratureIncluded
    \/ LiteratureSkipped
    \/ ContextAdded
    \/ ContextSkipped
    \/ LoopEntered
    \/ LoopRaises
    \/ SearchReturns
    \/ SearchRaises
    \/ HitWithoutUrl
    \/ HitWithoutText
    \/ HitExtracted
    \/ ExtractRaises
    \/ BriefReturns
    \/ BriefRaises

SpecResearch == InitResearch /\ [][NextResearch]_vars

(***************************************************************************)
(* Claims about the retry wrapper                                          *)
(***************************************************************************)

NonRetryableError(o) == o.kind = "raise" /\ ~is_retryable(o.msg)

RetryableError(o) == o.kind = "raise" /\ is_retryable(o.msg)

\* C5: whenever an invocation of the wrapped function raises an error that
\* matches no retryable marker, the wrapper has re-raised that very error, has
\* invoked the function no further and has not slept after it; when this is
\* the first invocation, the function was invoked exactly once and sleep was
\* never called. This holds for every max_retries >= 0.
C5_NonRetryableRaisedAtOnce ==
    rw.pc # "idle" /\ rw.max_retries >= 0 =>
        \A i \in DOMAIN rw.invoked :
            NonRetryableError(rw.invoked[i]) =>
                /\ rw.pc = "raised"
                /\ rw.result = rw.invoked[i]
                /\ Len(rw.invoked) = i
                /\ Len(rw.slept) = i - 1
                /\ (i = 1 => rw.slept = <<>>)

\* C5 witness: with retries left, the first invocation raised "invalid
\* argument" and the wrapper has raised.
C5_Witness ==
    /\ rw.pc = "raised"
    /\ rw.max_retries >= 2
    /\ rw.invoked = <<Raises(<<"invalid", "argument">>)>>
    /\ rw.slept = <<>>

\* The state part of C6, for max_retries >= 0: (a) while every invocation has
\* raised a retryable error the wrapper has invoked at most max_retries + 1
\* times, and once it has raised it has invoked exactly max_retries + 1 times,
\* slept exactly max_retries times and raised the error of the last
\* invocation; (b) as soon as an invocation returns a value the wrapper has
\* returned that value, with no later invocation and no later sleep.
C6_Counts ==
    rw.pc # "idle" /\ rw.max_retries >= 0 =>
        /\ (\A i \in DOMAIN rw.invoked : RetryableError(rw.invoked[i])) =>
              /\ Len(rw.invoked) <= rw.max_retries + 1
              /\ rw.pc # "returned"
              /\ rw.pc = "raised" =>
                    /\ Len(rw.invoked) = rw.max_retries + 1
                    /\ Len(rw.slept) = rw.max_retries
                    /\ rw.result = Last(rw.invoked)
        /\ \A i \in DOMAIN rw.invoked :
              rw.invoked[i].kind = "return" =>
                  /\ rw.pc = "returned"
                  /\ rw.result = rw.invoked[i]
                  /\ Len(rw.invoked) = i
                  /\ Len(rw.slept) = i - 1

\* C6: the counts above hold throughout, and every call of the wrapper ends:
\* it returns or it raises.
C6_ExhaustsThenRaises == []C6_Counts /\ <>WrapperDone

\* C6 witness: every one of the max_retries + 1 >= 3 invocations raised a
\* retryable error and the wrapper has raised the last of them.
C6_Witness ==
    /\ rw.pc = "raised"
    /\ rw.max_retries >= 2
    /\ Len(rw.invoked) = rw.max_retries + 1
    /\ \A i \in DOMAIN rw.invoked : RetryableError(rw.invoked[i])
    /\ Len(rw.slept) = rw.max_retries

RECURSIVE Power(_, _)
Power(base, k) == IF k = 0 THEN 1 ELSE base * Power(base, k - 1)

\* initial_delay x backoff_factor^k, as a fraction
BackoffDelay(initial_delay, backoff_factor, k) ==
    <<initial_delay[1] * Power(backoff_factor[1], k),
      initial_delay[2] * Power(backoff_factor[2], k)>>

\* Two fractions are the same number.
SameNumber(a, b) == a[1] * b[2] = b[1] * a[2]

\* C24: the delay slept before the k-th retry (k = 0 for the first) is
\* initial_delay x backoff_factor^k, whatever the errors were; with
\* initial_delay 1 and factor 2 the delays are 1, 2, 4.
C24_DelayIsGeometric ==
    rw.pc # "idle" =>
        \A n \in DOMAIN rw.slept :
            SameNumber(rw.slept[n],
                       BackoffDelay(rw.initial_delay, rw.backoff_factor, n - 1))

\* C24 witness: with initial_delay 1 and factor 2 the wrapper has slept
\* 1, 2 and 4 seconds, the errors before the sleeps not all the same.
C24_Witness ==
    /\ rw.pc = "try"
    /\ rw.initial_delay = <<1, 1>>
    /\ rw.backoff_factor = <<2, 1>>
    /\ Len(rw.slept) = 3
    /\ SameNumber(rw.slept[1], <<1, 1>>)
    /\ SameNumber(rw.slept[2], <<2, 1>>)
    /\ SameNumber(rw.slept[3], <<4, 1>>)
    /\ rw.invoked[1] # rw.invoked[2]

(***************************************************************************)
(* Claims about the token budget manager                                   *)
(***************************************************************************)

\* C1: the list _truncate_notes returns has an estimated token count (the
\* length of its JSON serialization divided by 4, rounded down) of at most
\* HARD_CAP_TOKENS, also when the input was over the soft cap.
C1_OutputWithinHardCap ==
    tn.pc = "done" => estimate_tokens(DumpsLen(tn.result)) <= HARD_CAP_TOKENS

\* _truncate_notes has returned from its loop: the input was over the soft
\* cap.
ReturnedTrimmed == tn.pc = "done" /\ tn.i > 0

\* C22: on the path over the soft cap, every returned note whose original
\* serialization is longer than NOTE_SUMMARIZE_THRESHOLD is marked
\* "_trimmed" and carries an excerpt of at most the threshold plus the
\* marker in the place of its content, so that it serializes to no more
\* than the original note did; a note at or below the threshold has no
\* marker.
C22_TrimmedNoteNotLarger ==
    ReturnedTrimmed =>
        \A i \in DOMAIN tn.result :
            IF NoteLen(tn.input[i]) > NOTE_SUMMARIZE_THRESHOLD
            THEN /\ tn.result[i].trimmed
                 /\ tn.result[i].excerpt <= NOTE_SUMMARIZE_THRESHOLD + TruncatedMarkerLen
                 /\ NoteLen(tn.result[i]) <= NoteLen(tn.input[i])
            ELSE /\ ~tn.result[i].trimmed
                 /\ tn.result[i].excerpt = 0

\* A note without its "_trimmed" and "_excerpt" keys.
WithoutMarkers(note) == [note EXCEPT !.trimmed = FALSE, !.excerpt = 0]

\* The estimate of the first k notes of a list.
PrefixEstimate(notes, k) == estimate_tokens(DumpsLen(SubSeq(notes, 1, k)))

\* C23: on the path over the soft cap, the returned list is no longer than
\* the input, its i-th note is a copy of the i-th input note with at most
\* the markers added, it ends with the first note that takes the estimate
\* of the accumulated list over HARD_CAP_TOKENS, and the input list and its
\* notes are as they were.
C23_PrefixOfCopies ==
    /\ tn.pc # "idle" => tn.notes = tn.input
    /\ ReturnedTrimmed =>
          /\ Len(tn.result) <= Len(tn.input)
          /\ \A i \in DOMAIN tn.result : WithoutMarkers(tn.result[i]) = tn.input[i]
          /\ \A k \in 1..(Len(tn.result) - 1) :
                 PrefixEstimate(tn.result, k) <= HARD_CAP_TOKENS
          /\ Len(tn.result) < Len(tn.input) =>
                 PrefixEstimate(tn.result, Len(tn.result)) > HARD_CAP_TOKENS

\* C23 witness: of three notes the second takes the list over the hard cap
\* and the third is left out.
C23_Witness ==
    /\ ReturnedTrimmed
    /\ Len(tn.input) = 3
    /\ Len(tn.result) = 2
    /\ tn.broke
    /\ tn.result[1].trimmed
    /\ PrefixEstimate(tn.result, 1) <= HARD_CAP_TOKENS

(***************************************************************************)
(* Claims about the academic search client and the literature review       *)
(***************************************************************************)

\* AcademicSearch.search has returned (to run_literature_review or to the
\* caller of the model).
SearchReturned ==
    \/ ac.pc \in {"papers", "done"}
    \/ ac.pc = "raised" /\ "synthesize_literature" \in Range(ac.llm_calls)

\* What the sources returned, OpenAlex first.
Found == ac.found.openalex \o ac.found.semantic_scholar

QueriedSources == {ac.queried[i][1] : i \in DOMAIN ac.queried}

\* C7: in the list search returns, a paper with a non-empty DOI survives
\* exactly when no earlier paper (OpenAlex first, then Semantic Scholar) has
\* that DOI, so exactly one paper per non-empty DOI survives; every paper
\* with an empty or missing DOI survives, whatever its title; and nothing
\* else is in the list.
C7_DedupByDoiOnly ==
    SearchReturned =>
        /\ \A i \in DOMAIN Found :
              IF Truthy(Found[i].doi)
              THEN Found[i] \in Range(ac.unique_papers)
                   <=> \A j \in 1..(i - 1) : Found[j].doi # Found[i].doi
              ELSE Found[i] \in Range(ac.unique_papers)
        /\ \A i \in DOMAIN Found :
              Truthy(Found[i].doi) =>
                  Cardinality({k \in DOMAIN ac.unique_papers :
                                  ac.unique_papers[k].doi = Found[i].doi}) = 1
        /\ Range(ac.unique_papers) \subseteq Range(Found)
        /\ Cardinality(Range(ac.unique_papers)) = Len(ac.unique_papers)

\* C7 witness: search has returned after both sources found a paper with the
\* same DOI under different titles, and OpenAlex found two papers of the
\* same title, one with an empty and one with a missing DOI.
C7_Witness ==
    /\ ac.pc = "done"
    /\ \E i \in DOMAIN ac.found.openalex, j \in DOMAIN ac.found.semantic_scholar :
          /\ Truthy(ac.found.openalex[i].doi)
          /\ ac.found.openalex[i].doi = ac.found.semantic_scholar[j].doi
          /\ ac.found.openalex[i].title # ac.found.semantic_scholar[j].title
    /\ \E i, j \in DOMAIN Found :
          /\ i # j
          /\ Found[i].doi = ""
          /\ Found[j].doi \in {"", None}
          /\ Found[i].title = Found[j].title

\* C8: search never raises (a call that has raised is a run_literature_review
\* whose translation or synthesis call raised); once it has returned, every
\* source asked for was queried, whatever the other source did; when one
\* source failed and the other did not, the result holds the other source's
\* papers (all those without a DOI, one per DOI, and nothing else); when both
\* failed the result is empty.
C8_SourceFailureIsolated ==
    /\ ac.pc = "raised" =>
          /\ ac.entry = "run_literature_review"
          /\ ac.queried = <<>> \/ Last(ac.llm_calls) = "synthesize_literature"
    /\ SearchReturned =>
          /\ QueriedSources = EffectiveSources(ac.sources)
          /\ \A failing \in ac.failed :
                \A other \in EffectiveSources(ac.sources) \ ac.failed :
                    /\ Range(ac.unique_papers) \subseteq Range(ac.found[other])
                    /\ \A i \in DOMAIN ac.found[other] :
                          \E k \in DOMAIN ac.unique_papers :
                              IF Truthy(ac.found[other][i].doi)
                              THEN ac.unique_papers[k].doi = ac.found[other][i].doi
                              ELSE ac.unique_papers[k] = ac.found[other][i]
          /\ ac.failed = {"openalex", "semantic_scholar"} => ac.unique_papers = <<>>

\* C8 witness: OpenAlex failed, Semantic Scholar was then queried and its
\* papers were returned.
C8_Witness ==
    /\ ac.pc = "done"
    /\ ac.failed = {"openalex"}
    /\ Len(ac.queried) = 2
    /\ Len(ac.found.semantic_scholar) = 2
    /\ ac.unique_papers = ac.found.semantic_scholar

\* C9: when the academic search returns no paper, run_literature_review
\* makes no synthesis call and does not raise, and the review it returns has
\* approved = FALSE, no papers and a non-empty summary one piece of which is
\* the very query that was sent to the academic sources.
C9_NoPapersFallback ==
    ac.pc # "idle" /\ ac.entry = "run_literature_review"
        /\ SearchReturned /\ ac.unique_papers = <<>> =>
            /\ "synthesize_literature" \notin Range(ac.llm_calls)
            /\ ac.pc # "raised"
            /\ ac.pc = "done" =>
                  /\ ac.review.approved = FALSE
                  /\ ac.review.papers = <<>>
                  /\ ac.review.summary # <<>>
                  /\ ac.queried # <<>>
                  /\ \A i \in DOMAIN ac.queried :
                        /\ NonEmpty(ac.queried[i][2])
                        /\ ac.queried[i][2] \in Range(ac.review.summary)

\* C9 witness: the topic was translated into a different query, both sources
\* were queried with it and found nothing, and the fallback review was
\* returned.
C9_Witness ==
    /\ ac.pc = "done"
    /\ ac.entry = "run_literature_review"
    /\ ac.search_query = <<"credit", " ", "risk">>
    /\ ac.search_query # ac.topic
    /\ Len(ac.queried) = 2
    /\ ac.failed = {}
    /\ ac.review.papers = <<>>
    /\ ac.review.approved = FALSE

(***************************************************************************)
(* Claims about the research orchestrator                                  *)
(***************************************************************************)

\* run_research_with_literature was called with no review or with a review
\* that is not approved.
UnapprovedCall ==
    /\ rr.pc # "idle"
    /\ rr.fn = "run_research_with_literature"
    /\ ~(rr.literature_review.given /\ rr.literature_review.approved)

\* An approved review was passed to run_research_with_literature.
ApprovedCall ==
    /\ rr.pc # "idle"
    /\ rr.fn = "run_research_with_literature"
    /\ rr.literature_review.given
    /\ rr.literature_review.approved

IsWebNote(note) == note.source = None

WebUrls(notes) == {notes[i].source_url : i \in {k \in DOMAIN notes : IsWebNote(notes[k])}}

\* What can make a run raise: the planner call, the shape of its plan, the
\* search, the extraction call and the brief call.
RaiseCauses ==
    {"plan_queries", "AttributeError", "TypeError", "search", "extract_notes",
     "build_brief_from_notes"}

\* C2: in a call of run_research_with_literature with no review or with an
\* unapproved one, at every step: literature_included is false, no note has
\* source "literature_review", every reference gathered is "Uploaded Files"
\* or the url of a web note (none comes from the review's papers), and when
\* the call raises it is for one of the external calls or for the plan,
\* never for the review; the result returned has literature_included =
\* false, these notes and only these references.
C2_UnapprovedReviewIgnored ==
    UnapprovedCall =>
        /\ rr.literature_included = FALSE
        /\ \A i \in DOMAIN rr.notes : rr.notes[i].source # "literature_review"
        /\ Range(rr.refs) \subseteq {"Uploaded Files"} \cup WebUrls(rr.notes)
        /\ rr.pc = "raised" => rr.error \in RaiseCauses
        /\ rr.pc = "done" =>
              /\ rr.result.has_literature_included
              /\ rr.result.literature_included = FALSE
              /\ rr.result.notes = rr.notes
              /\ Range(rr.result.references)
                     \subseteq {"Uploaded Files"} \cup WebUrls(rr.notes)

\* C2 witness: a call with an unapproved review of six papers has returned
\* a result with a web note and the uploaded context.
C2_Witness ==
    /\ UnapprovedCall
    /\ rr.pc = "done"
    /\ rr.literature_review.given
    /\ Len(rr.literature_review.papers) = 6
    /\ rr.result.references = <<"Uploaded Files", "https://a.example/1">>
    /\ Len(rr.notes) = 2

\* C3: the references of the result of run_research and of
\* run_research_with_literature are strictly ascending in Python's string
\* order, hence sorted and free of duplicates.
C3_ReferencesSortedUnique ==
    rr.pc = "done" =>
        /\ \A i \in 1..(Len(rr.result.references) - 1) :
              StrLess(rr.result.references[i], rr.result.references[i + 1])
        /\ Cardinality(Range(rr.result.references)) = Len(rr.result.references)

\* C3 witness: the result of a run in which two hits had the same url, that
\* url was also the DOI link of a paper of the approved review, and there
\* was uploaded context.
C3_Witness ==
    /\ rr.pc = "done"
    /\ ApprovedCall
    /\ rr.additional_context > 0
    /\ Len(rr.notes) = 4
    /\ rr.notes[3].source_url = "https://doi.org/10.1/a"
    /\ rr.notes[4].source_url = "https://doi.org/10.1/a"
    /\ PaperA \in Range(rr.literature_review.papers)
    /\ Len(rr.refs) > Len(rr.result.references)

\* (q, r) positions in the order of the two loops
Before(a, b) == a[1] < b[1] \/ (a[1] = b[1] /\ a[2] < b[2])

\* C4: at every step of a run, and in its result: the literature note is in
\* the notes only when an approved review was passed, and then first; the
\* uploaded-context note only when additional_context is not empty, and then
\* right after the literature note, or first without one; all the web notes
\* come after these, in the order of their queries and, within a query, of
\* their hits. Once the web loop is reached the two notes are there whenever
\* their conditions hold.
C4_NotesInInsertionOrder ==
    rr.pc # "idle" =>
        LET notes == rr.notes
            hasLit == notes # <<>> /\ notes[1].source = "literature_review"
        IN  /\ \A i \in DOMAIN notes :
                  notes[i].source = "literature_review" => i = 1 /\ ApprovedCall
            /\ \A i \in DOMAIN notes :
                  notes[i].source = "uploaded_files" =>
                      /\ rr.additional_context > 0
                      /\ i = IF hasLit THEN 2 ELSE 1
            /\ \A i, j \in DOMAIN notes :
                  /\ IsWebNote(notes[i]) /\ ~IsWebNote(notes[j]) => j < i
                  /\ IsWebNote(notes[i]) /\ IsWebNote(notes[j]) /\ i < j
                         => Before(notes[i].at, notes[j].at)
            /\ rr.pc \in {"loop", "search", "hit", "brief", "done"} =>
                  /\ ApprovedCall => hasLit
                  /\ rr.additional_context > 0 =>
                        notes[IF hasLit THEN 2 ELSE 1].source = "uploaded_files"
            /\ rr.pc = "done" => rr.result.notes = notes

\* C4 witness: a result with the literature note, the context note and two
\* web notes from two different queries.
C4_Witness ==
    /\ rr.pc = "done"
    /\ Len(rr.result.notes) = 4
    /\ rr.result.notes[1].source = "literature_review"
    /\ rr.result.notes[2].source = "uploaded_files"
    /\ IsWebNote(rr.result.notes[3])
    /\ IsWebNote(rr.result.notes[4])
    /\ rr.result.notes[3].at[1] < rr.result.notes[4].at[1]

\* C10: whatever text the planner returns, the run does not raise for lack
\* of a plan (no AttributeError on the plan, no TypeError on its queries),
\* and it reaches the search stage with a non-empty list of query strings.
C10_PlanNeverDeadEnds ==
    /\ rr.pc = "raised" => rr.error \notin {"AttributeError", "TypeError"}
    /\ rr.pc \in {"search", "hit", "brief", "done"} =>
          /\ rr.queries.t = "list"
          /\ rr.queries.v # <<>>
          /\ \A i \in DOMAIN rr.queries.v : rr.queries.v[i].t = "string"

\* C11: a run never ends by raising the failure of its planning call or of
\* its brief call: when plan_queries or build_brief_from_notes has failed
\* outright, the run still returns a result object.
C11_LlmFailureNotRaised ==
    rr.pc = "raised" => rr.error \notin {"plan_queries", "build_brief_from_notes"}

(***************************************************************************)
(* Fetcher: fetch_and_clean and _extract_pdf_text in                       *)
(* src/research/fetch.py.                                                  *)
(*                                                                         *)
(* A url and a Content-Type are sequences of tokens; a text is the record  *)
(* of the stage that produced it and of its length. Every library call     *)
(* that can fail (requests.get, raise_for_status, PdfReader, reader.pages, *)
(* extract_text, readability, BeautifulSoup) either returns or raises;     *)
(* what a raise does is decided by the try blocks of the code.             *)
(***************************************************************************)

\* Most pages of a PDF.
MaxPages == 2

\* fetch.py 68: len(text) >= 200
MIN_READABLE_CHARS == 200

FetchUrls ==
    { <<"https://a.example/", "report">>, <<"https://a.example/", "report", ".pdf">>,
      <<"https://a.example/", "REPORT", ".PDF">> }

\* The Content-Type header of the response; <<>> is a response without one.
ContentTypes ==
    { <<>>, <<"text/", "html">>, <<"application/", "pdf">>, <<"Application/", "PDF">> }

\* str.lower() on the tokens of urls and content types
LowerToken(w) ==
    CASE w = ".PDF" -> ".pdf"
      [] w = "PDF" -> "pdf"
      [] w = "REPORT" -> "report"
      [] w = "Application/" -> "application/"
      [] OTHER -> w

LowerTokens(s) == [i \in DOMAIN s |-> LowerToken(s[i])]

\* fetch.py 54: "pdf" in content_type or url.lower().endswith(".pdf")
IsPdf(content_type, url) ==
    \/ \E i \in DOMAIN content_type : content_type[i] = "pdf"
    \/ (url # <<>> /\ Last(LowerTokens(url)) = ".pdf")

\* What page.extract_text() does on one page: raise, return None or "", or
\* return a text of len characters of which stripped are left by strip().
PageOutcomes ==
    { [raises |-> TRUE, len |-> 0, stripped |-> 0],
      [raises |-> FALSE, len |-> 0, stripped |-> 0],
      [raises |-> FALSE, len |-> 3, stripped |-> 0],
      [raises |-> FALSE, len |-> 900, stripped |-> 897] }

\* fetch.py 30-35: the part a page adds, as the sequence of its length, or
\* nothing.
PagePart(page) ==
    IF page.raises \/ page.len = 0 THEN <<>> ELSE <<page.stripped>>

RECURSIVE PageParts(_)
PageParts(pages) ==
    IF pages = <<>> THEN <<>> ELSE PagePart(Head(pages)) \o PageParts(Tail(pages))

RECURSIVE SumSeq(_)
SumSeq(s) == IF s = <<>> THEN 0 ELSE Head(s) + SumSeq(Tail(s))

\* fetch.py 37: len("\n".join(parts))
JoinedLen(parts) == IF parts = <<>> THEN 0 ELSE SumSeq(parts) + (Len(parts) - 1)

Text(stage, len) == [none |-> FALSE, stage |-> stage, len |-> len]

NoText == [none |-> TRUE, stage |-> "", len |-> 0]

\* fetch.py 37-38: text if text else None
PdfText(pages) ==
    IF JoinedLen(PageParts(pages)) > 0 THEN Text("pdf", JoinedLen(PageParts(pages)))
    ELSE NoText

\* The locals of a call of fetch_and_clean(url); readable and visible are
\* the lengths of text at lines 67 and 77 (-1: not assigned).
FetchCall(url) ==
    [pc |-> "request", url |-> url, content_type |-> <<>>, pages |-> <<>>,
     readable |-> 0 - 1, visible |-> 0 - 1,
     failed |-> <<>>, result |-> NoText, error |-> ""]

\* fetch.py 41-49: requests.get or raise_for_status raises; None is returned.
RequestFails ==
    /\ fc.pc = "request"
    /\ \E stage \in {"request", "status"} :
          fc' = [fc EXCEPT !.pc = "returned", !.failed = Append(@, stage),
                           !.result = NoText]
    /\ UNCHANGED <<rw, tn, ac, rr, en, ga, api, ws>>

\* fetch.py 41-47: the response arrived with a 2xx status.
RequestSucceeds ==
    /\ fc.pc = "request"
    /\ fc' = [fc EXCEPT !.pc = "headers"]
    /\ UNCHANGED <<rw, tn, ac, rr, en, ga, api, ws>>

\* fetch.py 51-54: the content type is read and the PDF branch is chosen
\* (resp.headers is a dictionary of strings: the statement does not raise).
HeadersRead ==
    /\ fc.pc = "headers"
    /\ \E content_type \in ContentTypes :
          fc' = [fc EXCEPT !.content_type = LowerTokens(content_type),
                           !.pc = IF IsPdf(LowerTokens(content_type), fc.url)
                                  THEN "pdf" ELSE "sanitize"]
    /\ UNCHANGED <<rw, tn, ac, rr, en, ga, api, ws>>

\* fetch.py 21-22, 55-58: the body (read by requests.get) is empty; _extract_pdf_text returns None
\* and the HTML stages follow.
PdfEmpty ==
    /\ fc.pc = "pdf"
    /\ fc' = [fc EXCEPT !.pc = "sanitize"]
    /\ UNCHANGED <<rw, tn, ac, rr, en, ga, api, ws>>

\* fetch.py 23-26, 56-58: PdfReader raises; _extract_pdf_text returns None
\* and the HTML stages follow.
PdfOpenFails ==
    /\ fc.pc = "pdf"
    /\ fc' = [fc EXCEPT !.pc = "sanitize", !.failed = Append(@, "pdf_open")]
    /\ UNCHANGED <<rw, tn, ac, rr, en, ga, api, ws>>

\* fetch.py 23-24: PdfReader returns a reader.
PdfOpened ==
    /\ fc.pc = "pdf"
    /\ fc' = [fc EXCEPT !.pc = "pages"]
    /\ UNCHANGED <<rw, tn, ac, rr, en, ga, api, ws>>

\* fetch.py 29: reader.pages, or the iteration over it, raises; the for
\* statement is in no try of _extract_pdf_text nor of fetch_and_clean.
PagesRaise ==
    /\ fc.pc = "pages"
    /\ fc' = [fc EXCEPT !.pc = "raised", !.failed = Append(@, "pdf_pages"),
                        !.error = "pdf_pages"]
    /\ UNCHANGED <<rw, tn, ac, rr, en, ga, api, ws>>

\* fetch.py 28-38, 55-58: the pages are read, a page whose extraction
\* raises counting as empty; the joined text is returned unless it is empty.
PagesExtracted ==
    /\ fc.pc = "pages"
    /\ \E n \in 0..MaxPages :
          \E pages \in [1..n -> PageOutcomes] :
              fc' = [fc EXCEPT !.pages = pages,
                               !.failed = @ \o (IF \E i \in 1..n : pages[i].raises
                                                THEN <<"pdf_page_text">> ELSE <<>>),
                               !.pc = IF PdfText(pages).none THEN "sanitize" ELSE "returned",
                               !.result = PdfText(pages)]
    /\ UNCHANGED <<rw, tn, ac, rr, en, ga, api, ws>>

\* fetch.py 60: resp.text decodes the body that requests.get has read, with
\* errors="replace", and _sanitize is a regular-expression substitution:
\* the statement does not raise.
Sanitized ==
    /\ fc.pc = "sanitize"
    /\ fc' = [fc EXCEPT !.pc = "readability"]
    /\ UNCHANGED <<rw, tn, ac, rr, en, ga, api, ws>>

\* Lengths of the text readability extracts and of the visible text of the
\* page.
ReadableLens == {0, MIN_READABLE_CHARS - 1, MIN_READABLE_CHARS, 5000}

VisibleLens == {0, 40, 6000}

\* fetch.py 63-72: Document, summary, BeautifulSoup or get_text raises; the
\* plain parse follows.
ReadabilityRaises ==
    /\ fc.pc = "readability"
    /\ fc' = [fc EXCEPT !.pc = "plain", !.failed = Append(@, "readability")]
    /\ UNCHANGED <<rw, tn, ac, rr, en, ga, api, ws>>

\* fetch.py 63-69: the readable text is returned when it has 200 characters
\* or more; otherwise the plain parse follows.
ReadabilityReturns ==
    /\ fc.pc = "readability"
    /\ \E len \in ReadableLens :
          fc' = IF len > 0 /\ len >= MIN_READABLE_CHARS
                THEN [fc EXCEPT !.pc = "returned", !.readable = len,
                                !.result = Text("readability", len)]
                ELSE [fc EXCEPT !.pc = "plain", !.readable = len]
    /\ UNCHANGED <<rw, tn, ac, rr, en, ga, api, ws>>

\* fetch.py 75-80: the plain parse raises; None is returned.
PlainRaises ==
    /\ fc.pc = "plain"
    /\ fc' = [fc EXCEPT !.pc = "returned", !.failed = Append(@, "plain"),
                        !.result = NoText]
    /\ UNCHANGED <<rw, tn, ac, rr, en, ga, api, ws>>

\* fetch.py 75-78 with the test of line 68 on the visible text too.
PlainReturnsLongOnly ==
    /\ fc.pc = "plain"
    /\ \E len \in VisibleLens :
          fc' = [fc EXCEPT !.pc = "returned", !.visible = len,
                           !.result = IF len >= MIN_READABLE_CHARS
                                      THEN Text("plain", len) ELSE NoText]
    /\ UNCHANGED <<rw, tn, ac, rr, en, ga, api, ws>>

\* fetch.py 75-78: text or None
PlainReturns ==
    /\ fc.pc = "plain"
    /\ \E len \in VisibleLens :
          fc' = [fc EXCEPT !.pc = "returned", !.visible = len,
                           !.result = IF len > 0 THEN Text("plain", len) ELSE NoText]
    /\ UNCHANGED <<rw, tn, ac, rr, en, ga, api, ws>>

InitFetch ==
    /\ \E url \in FetchUrls : fc = FetchCall(url)
    /\ rw = Idle
    /\ tn = Idle
    /\ ac = Idle
    /\ rr = Idle
    /\ en = Idle
    /\ ga = Idle
    /\ api = Idle
    /\ ws = Idle

NextFetch ==
    \/ RequestFails
    \/ RequestSucceeds
    \/ HeadersRead
    \/ PdfEmpty
    \/ PdfOpenFails
    \/ PdfOpened
    \/ PagesRaise
    \/ PagesExtracted
    \/ Sanitized
    \/ ReadabilityRaises
    \/ ReadabilityReturns
    \/ PlainRaises
    \/ PlainReturns

SpecFetch == InitFetch /\ [][NextFetch]_vars

(***************************************************************************)
(* Note extractor: extract_notes and _coerce_json in src/research/notes.py.*)
(*                                                                         *)
(* The text of the model is a sequence of tokens: " " and "\n" are         *)
(* whitespace, "fence" and "fence_json" are a line of three backquotes and  *)
(* that line followed by json, "{" "}" "[" "]" "null" "5" are JSON, a      *)
(* member token is one "key": value pair of an object (with its comma),    *)
(* and "prose" is any other text.                                          *)
(***************************************************************************)

Whitespace == {" ", "\n"}

Fences == {"fence", "fence_json"}

JAbsent == [t |-> "absent", v |-> <<>>, s |-> <<>>, has_queries |-> FALSE]

\* The pair a member token stands for.
Member(key, value) == [key |-> key, value |-> value]

MemberTokens == {"kc", "kc_null", "dp", "qu", "su_other", "su_null"}

MemberOf(token) ==
    CASE token = "kc" -> Member("key_claims", JList(<<JStr(<<"c1">>)>>))
      [] token = "kc_null" -> Member("key_claims", JNull)
      [] token = "dp" -> Member("data_points", JList(<<JStr(<<"d1">>)>>))
      [] token = "qu" -> Member("quotes", JList(<<JStr(<<"q1">>)>>))
      [] token = "su_other" -> Member("source_url", JStr(<<"https://other.example/">>))
      [] token = "su_null" -> Member("source_url", JNull)

\* A dict with the keys of a note; JAbsent marks a key that is not there.
EmptyDict ==
    [key_claims |-> JAbsent, data_points |-> JAbsent, quotes |-> JAbsent,
     source_url |-> JAbsent]

\* d[key] = value
SetItem(d, key, value) ==
    CASE key = "key_claims" -> [d EXCEPT !.key_claims = value]
      [] key = "data_points" -> [d EXCEPT !.data_points = value]
      [] key = "quotes" -> [d EXCEPT !.quotes = value]
      [] key = "source_url" -> [d EXCEPT !.source_url = value]

GetItem(d, key) ==
    CASE key = "key_claims" -> d.key_claims
      [] key = "data_points" -> d.data_points
      [] key = "quotes" -> d.quotes
      [] key = "source_url" -> d.source_url

\* d.setdefault(key, value)
SetDefault(d, key, value) ==
    IF GetItem(d, key) = JAbsent THEN SetItem(d, key, value) ELSE d

\* The object whose members are the tokens, a later member replacing an
\* earlier one with the same key.
RECURSIVE DictOf(_)
DictOf(tokens) ==
    IF tokens = <<>> THEN EmptyDict
    ELSE LET m == MemberOf(Last(tokens))
         IN  SetItem(DictOf(SubSeq(tokens, 1, Len(tokens) - 1)), m.key, m.value)

RECURSIVE WithoutWhitespace(_)
WithoutWhitespace(s) ==
    IF s = <<>> THEN <<>>
    ELSE (IF Head(s) \in Whitespace THEN <<>> ELSE <<Head(s)>>)
             \o WithoutWhitespace(Tail(s))

\* The tokens are one JSON object.
IsObjectText(s) ==
    LET t == WithoutWhitespace(s)
    IN  /\ Len(t) >= 2
        /\ t[1] = "{"
        /\ Last(t) = "}"
        /\ \A i \in 2..(Len(t) - 1) : t[i] \in MemberTokens

\* The tokens are one JSON value that is no object.
IsOtherJsonText(s) ==
    WithoutWhitespace(s) \in { <<"null">>, <<"5">>, <<"[", "]">>, <<"[", "5", "]">> }

\* json.loads(candidate): the dict of an object, another value, or an
\* exception.
JsonLoads(candidate) ==
    IF IsObjectText(candidate)
    THEN LET t == WithoutWhitespace(candidate)
         IN  [raises |-> FALSE, is_dict |-> TRUE, dict |-> DictOf(SubSeq(t, 2, Len(t) - 1))]
    ELSE [raises |-> ~IsOtherJsonText(candidate), is_dict |-> FALSE, dict |-> EmptyDict]

\* candidate.splitlines()
RECURSIVE SplitLines(_)
SplitLines(s) ==
    IF s = <<>> THEN <<>>
    ELSE IF \E i \in DOMAIN s : s[i] = "\n"
         THEN LET i == CHOOSE k \in DOMAIN s :
                           s[k] = "\n" /\ \A j \in 1..(k - 1) : s[j] # "\n"
              IN  <<SubSeq(s, 1, i - 1)>> \o SplitLines(SubSeq(s, i + 1, Len(s)))
         ELSE <<s>>

\* "\n".join(lines)
RECURSIVE JoinLines(_)
JoinLines(lines) ==
    IF lines = <<>> THEN <<>>
    ELSE IF Len(lines) = 1 THEN lines[1]
         ELSE lines[1] \o <<"\n">> \o JoinLines(Tail(lines))

\* s.startswith of three backquotes
StartsWithFence(s) == s # <<>> /\ Head(s) \in Fences

\* notes.py 30: the lines that are no fence
RECURSIVE WithoutFenceLines(_)
WithoutFenceLines(lines) ==
    IF lines = <<>> THEN <<>>
    ELSE (IF StartsWithFence(Strip(Head(lines), Whitespace)) THEN <<>>
          ELSE <<Head(lines)>>) \o WithoutFenceLines(Tail(lines))

\* notes.py 26-31
Unfenced(text) ==
    LET candidate == Strip(text, Whitespace)
    IN  IF StartsWithFence(candidate)
        THEN Strip(JoinLines(WithoutFenceLines(SplitLines(candidate))), Whitespace)
        ELSE candidate

\* candidate.find("{"), candidate.rfind("}"); 0 stands for -1.
Find(s, token) ==
    IF \E i \in DOMAIN s : s[i] = token
    THEN CHOOSE i \in DOMAIN s : s[i] = token /\ \A j \in 1..(i - 1) : s[j] # token
    ELSE 0

RFind(s, token) ==
    IF \E i \in DOMAIN s : s[i] = token
    THEN CHOOSE i \in DOMAIN s : s[i] = token /\ \A j \in (i + 1)..Len(s) : s[j] # token
    ELSE 0

\* notes.py 34-37
BetweenBraces(candidate) ==
    LET start == Find(candidate, "{")
        end == RFind(candidate, "}")
    IN  IF start # 0 /\ end # 0 /\ end > start
        THEN SubSeq(candidate, start, end) ELSE candidate

\* notes.py 21-42: what _coerce_json returns; {} is a dict without keys.
coerce_json(text) ==
    IF text = <<>> THEN [raises |-> FALSE, is_dict |-> TRUE, dict |-> EmptyDict]
    ELSE LET loaded == JsonLoads(BetweenBraces(Unfenced(text)))
         IN  IF loaded.raises
             THEN [raises |-> FALSE, is_dict |-> TRUE, dict |-> EmptyDict]
             ELSE loaded

\* What the extraction model answers (resp.text; <<>> is also None):
\* nothing, prose, a bare object, a fenced object, an object within prose,
\* an object with null members, JSON that is no object, braces around
\* prose, an object cut short, braces in the wrong order, two objects, an
\* object in a list, prose before a fence, and an object on the fence line.
ExtractTexts ==
    { <<>>,
      <<"prose">>,
      <<"{", "kc", "dp", "qu", "su_other", "}">>,
      <<" ", "fence_json", "\n", "{", "\n", "kc", "\n", "su_other", "}", "\n", "fence", "\n">>,
      <<"prose", "\n", "{", "dp", "}", " ", "prose">>,
      <<"{", "kc_null", "su_null", "}">>,
      <<"{", "}">>,
      <<"null">>, <<"5">>, <<"[", "]">>, <<"[", "5", "]">>,
      <<"{", "prose", "}">>,
      <<"{", "kc", "su_other">>,
      <<"}", "prose", "{">>,
      <<"{", "kc", "}", "prose", "{", "qu", "}">>,
      <<"[", "{", "kc", "su_other", "}", "]">>,
      <<"prose", "\n", "fence", "\n", "{", "qu", "}", "\n", "fence">>,
      <<"fence_json", " ", "{", "kc", "}", "\n", "fence">>,
      <<"fence", "\n", "prose", "\n", "fence">> }

ExtractUrls == {"https://a.example/1", "https://b.example/2"}

\* notes.py 59 with setdefault in the place of the assignment
WithDefaultSourceUrl(data, url) == SetDefault(data, "source_url", JStr(<<url>>))

\* notes.py 59: data["source_url"] = url
WithSourceUrl(data, url) == SetItem(data, "source_url", JStr(<<url>>))

\* notes.py 55-57
WithDefaults(data) ==
    SetDefault(SetDefault(SetDefault(data, "key_claims", JList(<<>>)),
                          "data_points", JList(<<>>)),
               "quotes", JList(<<>>))

\* The locals of a call of extract_notes(client, text, url).
ExtractCall(url) ==
    [pc |-> "call", url |-> url, text |-> <<>>, data |-> EmptyDict,
     was_dict |-> TRUE, error |-> "", result |-> EmptyDict]

\* notes.py 48-51: the model answers.
ExtractResponds ==
    /\ en.pc = "call"
    /\ \E text \in ExtractTexts : en' = [en EXCEPT !.pc = "coerce", !.text = text]
    /\ UNCHANGED <<rw, tn, ac, rr, fc, ga, api, ws>>

\* notes.py 45-51: generate_content raises and the retry wrapper gives up.
ExtractCallRaises ==
    /\ en.pc = "call"
    /\ en' = [en EXCEPT !.pc = "raised", !.error = "generate_content"]
    /\ UNCHANGED <<rw, tn, ac, rr, fc, ga, api, ws>>

\* notes.py 52-54
Coerced ==
    /\ en.pc = "coerce"
    /\ LET data == coerce_json(en.text)
       IN  en' = [en EXCEPT !.pc = "defaults",
                            !.was_dict = data.is_dict,
                            !.data = IF data.is_dict THEN data.dict ELSE EmptyDict]
    /\ UNCHANGED <<rw, tn, ac, rr, fc, ga, api, ws>>

\* notes.py 55-60
DefaultsSet ==
    /\ en.pc = "defaults"
    /\ en' = [en EXCEPT !.pc = "done",
                        !.data = WithSourceUrl(WithDefaults(en.data), en.url),
                        !.result = WithSourceUrl(WithDefaults(en.data), en.url)]
    /\ UNCHANGED <<rw, tn, ac, rr, fc, ga, api, ws>>

InitExtract ==
    /\ \E url \in ExtractUrls : en = ExtractCall(url)
    /\ rw = Idle
    /\ tn = Idle
    /\ ac = Idle
    /\ rr = Idle
    /\ fc = Idle
    /\ ga = Idle
    /\ api = Idle
    /\ ws = Idle

NextExtract == ExtractResponds \/ ExtractCallRaises \/ Coerced \/ DefaultsSet

SpecExtract == InitExtract /\ [][NextExtract]_vars

(***************************************************************************)
(* Entry points: the session operations of src/api/app.py and the agent    *)
(* tools of src/adk_app/tools.py.                                          *)
(*                                                                         *)
(* api.metadata is the metadata of the one stored session, api.last the    *)
(* answer to the latest request. A handler runs to its end without         *)
(* yielding, so each request is one step; the pipeline it calls is         *)
(* modelled by its outcome and by the external calls it made.              *)
(***************************************************************************)

\* The topic of a request: empty, blanks only, or a topic.
RequestTopics == { <<>>, <<" ", " ">>, <<"inflation">> }

\* tools.py 56, 97: not topic or not topic.strip()
BlankTopic(topic) == topic = <<>> \/ Strip(topic, Whitespace) = <<>>

\* The review dict of the metadata: approved, the number of its papers, and
\* whether user_modifications is set.
ReviewDict(approved, papers, modified) ==
    [approved |-> approved, papers |-> papers, modified |-> modified]

NoReviewDict == ReviewDict(FALSE, 0, FALSE)

\* The metadata of a new session: {} (src/database/models.py 108).
EmptyMetadata ==
    [has_review |-> FALSE, review |-> NoReviewDict, status |-> "absent",
     has_brief |-> FALSE, context_used |-> "absent", literature_included |-> "absent"]

\* app.py 329-333: the metadata /research stores.
ResearchMetadata(context_used) ==
    [EmptyMetadata EXCEPT !.has_brief = TRUE,
                          !.context_used = IF context_used THEN "true" ELSE "false"]

\* What a pipeline function does: fail before its first external call
\* (prompts or configuration), fail in or after one, or return.
PipelineOutcomes == {"config_error", "raises", "success"}

\* The external calls a pipeline made, by its first one: the planner call
\* of run_research (orchestrator.py 98, 166) or the translation call of
\* run_literature_review (literature_review.py 250).
CallsOf(outcome, first) == IF outcome = "config_error" THEN <<>> ELSE <<first>>

Response(op, topic, status, success, detail, calls) ==
    [op |-> op, topic |-> topic, status |-> status, success |-> success,
     detail |-> detail, calls |-> calls]

NoResponse == Response("", <<>>, 0, FALSE, "", <<>>)

\* app.py 291-293, 356-358, 400-402, 438-440: no such session.
SessionNotFound ==
    /\ api.pc = "ready"
    /\ \E op \in {"research", "literature-review", "approve", "research-with-literature"},
          topic \in RequestTopics :
          api' = [api EXCEPT !.last = Response(op, topic, 404, FALSE, "Session not found",
                                               <<>>)]
    /\ UNCHANGED <<rw, tn, ac, rr, fc, en, ga, ws>>

\* app.py 288-346: POST /research
ApiResearch ==
    /\ api.pc = "ready"
    /\ \E topic \in RequestTopics, context_used \in BOOLEAN, outcome \in PipelineOutcomes :
          api' = [api EXCEPT
                    !.topic = topic,
                    !.metadata = IF outcome = "success"
                                 THEN ResearchMetadata(context_used) ELSE @,
                    !.last = IF outcome = "success"
                             THEN Response("research", topic, 200, TRUE, "",
                                           CallsOf(outcome, "plan_queries"))
                             ELSE Response("research", topic, 500, FALSE, "Research error",
                                           CallsOf(outcome, "plan_queries"))]
    /\ UNCHANGED <<rw, tn, ac, rr, fc, en, ga, ws>>

\* app.py 350-392: POST /literature-review
ApiLiteratureReview ==
    /\ api.pc = "ready"
    /\ \E topic \in RequestTopics, papers \in 0..1, outcome \in PipelineOutcomes :
          api' = IF outcome = "success"
                 THEN [api EXCEPT
                         !.topic = topic,
                         !.metadata = [@ EXCEPT !.has_review = TRUE,
                                                !.review = ReviewDict(FALSE, papers, FALSE),
                                                !.status = "pending_approval"],
                         !.last = Response("literature-review", topic, 200, TRUE, "",
                                           CallsOf(outcome, "translate_topic_for_search"))]
                 ELSE [api EXCEPT
                         !.last = Response("literature-review", topic, 500, FALSE,
                                           "Literature review error",
                                           CallsOf(outcome, "translate_topic_for_search"))]
    /\ UNCHANGED <<rw, tn, ac, rr, fc, en, ga, ws>>

\* app.py 412-424: POST /literature-review/approve
ApiApprove ==
    /\ api.pc = "ready"
    /\ \E approved \in BOOLEAN, modifications \in BOOLEAN :
          api' = IF ~api.metadata.has_review
                 THEN [api EXCEPT
                         !.last = Response("approve", <<>>, 400, FALSE,
                                           "No literature review to approve", <<>>)]
                 ELSE [api EXCEPT
                         !.metadata =
                             [@ EXCEPT !.review.approved = IF approved THEN TRUE ELSE @,
                                       !.status = IF approved THEN "approved" ELSE "rejected",
                                       !.review.modified = IF modifications THEN TRUE ELSE @],
                         !.last = Response("approve", <<>>, 200, TRUE,
                                           IF approved THEN "approved" ELSE "rejected", <<>>)]
    /\ UNCHANGED <<rw, tn, ac, rr, fc, en, ga, ws>>

\* A test that takes every review for approved.
AnyReviewApproved(lit_review) == TRUE

\* app.py 457: lit_review.get("approved")
ReviewApproved(lit_review) == lit_review.approved

\* app.py 450-461: the failure of the request when the stored review is
\* missing or not approved; "" when it may proceed.
ReviewRefusal(metadata) ==
    IF ~metadata.has_review THEN "No literature review found"
    ELSE IF ~ReviewApproved(metadata.review) THEN "Literature review must be approved"
    ELSE ""

\* app.py 433-509: POST /research-with-literature
ApiResearchWithLiterature ==
    /\ api.pc = "ready"
    /\ \E topic \in RequestTopics, outcome \in PipelineOutcomes :
          api' = IF ReviewRefusal(api.metadata) # ""
                 THEN [api EXCEPT
                         !.last = Response("research-with-literature", topic, 400, FALSE,
                                           ReviewRefusal(api.metadata), <<>>)]
                 ELSE IF outcome = "success"
                 THEN [api EXCEPT
                         !.metadata = [@ EXCEPT !.has_brief = TRUE,
                                                !.literature_included = "true"],
                         !.last = Response("research-with-literature", topic, 200, TRUE, "",
                                           <<"run_pipeline_with_literature">>
                                               \o CallsOf(outcome, "plan_queries"))]
                 ELSE [api EXCEPT
                         !.last = Response("research-with-literature", topic, 500, FALSE,
                                           "Research error",
                                           <<"run_pipeline_with_literature">>
                                               \o CallsOf(outcome, "plan_queries"))]
    /\ UNCHANGED <<rw, tn, ac, rr, fc, en, ga, ws>>

\* tools.py 32-92: the agent tool run_academic_review; it answers with a
\* dict, status 0 standing for no HTTP status.
ToolRunAcademicReview ==
    /\ api.pc = "ready"
    /\ \E topic \in RequestTopics, outcome \in PipelineOutcomes :
          api' = [api EXCEPT !.last =
                    IF BlankTopic(topic)
                    THEN Response("run_academic_review", topic, 0, FALSE,
                                  "Topic must be a non-empty string.", <<>>)
                    ELSE Response("run_academic_review", topic, 0, outcome = "success",
                                  IF outcome = "success" THEN ""
                                  ELSE "Literature review failed",
                                  CallsOf(outcome, "translate_topic_for_search"))]
    /\ UNCHANGED <<rw, tn, ac, rr, fc, en, ga, ws>>

\* tools.py 95-120: the agent tool run_research
ToolRunResearch ==
    /\ api.pc = "ready"
    /\ \E topic \in RequestTopics, outcome \in PipelineOutcomes :
          api' = [api EXCEPT !.last =
                    IF BlankTopic(topic)
                    THEN Response("run_research", topic, 0, FALSE,
                                  "Topic must be a non-empty string.", <<>>)
                    ELSE Response("run_research", topic, 0, outcome = "success",
                                  IF outcome = "success" THEN "" ELSE "run_research failed",
                                  CallsOf(outcome, "plan_queries"))]
    /\ UNCHANGED <<rw, tn, ac, rr, fc, en, ga, ws>>

InitApi ==
    /\ api = [pc |-> "ready", topic |-> <<>>, metadata |-> EmptyMetadata,
              last |-> NoResponse]
    /\ rw = Idle
    /\ tn = Idle
    /\ ac = Idle
    /\ rr = Idle
    /\ fc = Idle
    /\ en = Idle
    /\ ga = Idle
    /\ ws = Idle

NextApi ==
    \/ SessionNotFound
    \/ ApiResearch
    \/ ApiLiteratureReview
    \/ ApiApprove
    \/ ApiResearchWithLiterature
    \/ ToolRunAcademicReview
    \/ ToolRunResearch

SpecApi == InitApi /\ [][NextApi]_vars

(***************************************************************************)
(* OpenAlex abstracts: OpenAlexSearch._get_abstract in                     *)
(* src/research/scholar_search.py.                                         *)
(*                                                                         *)
(* An inverted index is the sequence of its (word, positions) items in the *)
(* order of the dict; a text is the sequence of its words and spaces.      *)
(***************************************************************************)

\* Most words of an inverted index.
MaxWords == 2

IndexWords == {"the", "cat", "sat"}

\* The positions of one word; null is a value that is no list.
PositionLists ==
    { [null |-> FALSE, list |-> ps] :
          ps \in { <<>>, <<0>>, <<1>>, <<2>>, <<0, 3>>, <<3, 0>>, <<1, 1>> } }
    \cup { [null |-> TRUE, list |-> <<>>] }

IndexItem(word, positions) == [word |-> word, positions |-> positions]

\* The dicts of up to MaxWords distinct words.
InvertedIndexes ==
    UNION { { index \in [1..n -> { IndexItem(w, ps) : w \in IndexWords, ps \in PositionLists }] :
                  \A i, j \in 1..n : i # j => index[i].word # index[j].word } :
            n \in 0..MaxWords }

\* item.get("abstract_inverted_index"): the key is missing, or it holds an
\* index.
AbstractItems ==
    { [has_index |-> FALSE, index |-> <<>>] }
    \cup { [has_index |-> TRUE, index |-> index] : index \in InvertedIndexes }

\* scholar_search.py 224-225: the (pos, word) pairs of one item
PairsOfItem(item) ==
    [k \in DOMAIN item.positions.list |-> <<item.positions.list[k], item.word>>]

\* scholar_search.py 222-225
RECURSIVE WordPositions(_)
WordPositions(index) ==
    IF index = <<>> THEN <<>>
    ELSE PairsOfItem(Head(index)) \o WordPositions(Tail(index))

\* The pair goes after those that are not greater than it.
RECURSIVE InsertByPosition(_, _)
InsertByPosition(sorted, pair) ==
    IF sorted = <<>> THEN <<pair>>
    ELSE IF Head(sorted)[1] <= pair[1]
         THEN <<Head(sorted)>> \o InsertByPosition(Tail(sorted), pair)
         ELSE <<pair>> \o sorted

\* The pairs left in the order of the dict.
Unsorted(pairs) == pairs

\* scholar_search.py 226: word_positions.sort(key=lambda x: x[0]), a stable
\* sort.
RECURSIVE SortByPosition(_)
SortByPosition(pairs) ==
    IF pairs = <<>> THEN <<>>
    ELSE InsertByPosition(SortByPosition(SubSeq(pairs, 1, Len(pairs) - 1)), Last(pairs))

\* scholar_search.py 227: " ".join(word for _, word in word_positions)
RECURSIVE JoinWords(_)
JoinWords(pairs) ==
    IF pairs = <<>> THEN <<>>
    ELSE IF Len(pairs) = 1 THEN <<pairs[1][2]>>
         ELSE <<pairs[1][2], " ">> \o JoinWords(Tail(pairs))

\* The locals of a call of _get_abstract(item).
AbstractCall(item) ==
    [pc |-> "index", item |-> item, word_positions |-> <<>>, none |-> FALSE,
     text |-> <<>>]

\* scholar_search.py 216-218: no index, or an empty one
AbstractMissing ==
    /\ ga.pc = "index"
    /\ (~ga.item.has_index \/ ga.item.index = <<>>)
    /\ ga' = [ga EXCEPT !.pc = "done", !.none = TRUE]
    /\ UNCHANGED <<rw, tn, ac, rr, fc, en, api, ws>>

\* scholar_search.py 222-225: the pairs are collected.
PairsCollected ==
    /\ ga.pc = "index"
    /\ ga.item.has_index
    /\ ga.item.index # <<>>
    /\ \A i \in DOMAIN ga.item.index : ~ga.item.index[i].positions.null
    /\ ga' = [ga EXCEPT !.pc = "sort", !.word_positions = WordPositions(ga.item.index)]
    /\ UNCHANGED <<rw, tn, ac, rr, fc, en, api, ws>>

\* scholar_search.py 224, 228-229: the positions of a word are no list; the
\* TypeError is caught and None is returned.
PairsRaise ==
    /\ ga.pc = "index"
    /\ ga.item.has_index
    /\ \E i \in DOMAIN ga.item.index : ga.item.index[i].positions.null
    /\ ga' = [ga EXCEPT !.pc = "done", !.none = TRUE]
    /\ UNCHANGED <<rw, tn, ac, rr, fc, en, api, ws>>

\* scholar_search.py 226
PairsSorted ==
    /\ ga.pc = "sort"
    /\ ga' = [ga EXCEPT !.pc = "join", !.word_positions = SortByPosition(@)]
    /\ UNCHANGED <<rw, tn, ac, rr, fc, en, api, ws>>

\* scholar_search.py 227
WordsJoined ==
    /\ ga.pc = "join"
    /\ ga' = [ga EXCEPT !.pc = "done", !.text = JoinWords(ga.word_positions)]
    /\ UNCHANGED <<rw, tn, ac, rr, fc, en, api, ws>>

InitAbstract ==
    /\ \E item \in AbstractItems : ga = AbstractCall(item)
    /\ rw = Idle
    /\ tn = Idle
    /\ ac = Idle
    /\ rr = Idle
    /\ fc = Idle
    /\ en = Idle
    /\ api = Idle
    /\ ws = Idle

NextAbstract ==
    AbstractMissing \/ PairsCollected \/ PairsRaise \/ PairsSorted \/ WordsJoined

SpecAbstract == InitAbstract /\ [][NextAbstract]_vars

\* C12: fetch_and_clean never raises: whatever stage fails (request, status,
\* PDF opening, page enumeration, page text, readability, plain parse), the
\* call is not left by an exception; it returns None or goes on to a later
\* stage.
C12_FetchNeverRaises == fc.pc # "raised"

\* Some part of the text is a JSON object.
HasJsonObject(text) ==
    \E i, j \in DOMAIN text : i < j /\ IsObjectText(SubSeq(text, i, j))

\* C13: whatever text the extraction model returns, the note extract_notes
\* returns has source_url equal to the url passed in, also when the model
\* gave another source_url; when no part of the text is a JSON object the
\* note's key_claims, data_points and quotes are empty lists; and the call
\* raises only what the model call raised, never a parse error.
C13_SourceUrlForced ==
    /\ en.pc = "done" =>
          /\ en.result.source_url = JStr(<<en.url>>)
          /\ ~HasJsonObject(en.text) =>
                /\ en.result.key_claims = JList(<<>>)
                /\ en.result.data_points = JList(<<>>)
                /\ en.result.quotes = JList(<<>>)
    /\ en.pc = "raised" => en.error = "generate_content"

\* C13 witness: a note was returned for a fenced object that names another
\* source_url and keeps its key_claims.
C13_Witness ==
    /\ en.pc = "done"
    /\ StartsWithFence(Strip(en.text, Whitespace))
    /\ \E i \in DOMAIN en.text : en.text[i] = "su_other"
    /\ en.result.source_url = JStr(<<en.url>>)
    /\ en.result.key_claims = JList(<<JStr(<<"c1">>)>>)
    /\ en.result.quotes = JList(<<>>)

(***************************************************************************)
(* Claims about the token budget                                           *)
(***************************************************************************)

\* orchestrator.py 35-36: the estimate of the serialized list is within the
\* soft cap.
UnderSoftCap(notes) == estimate_tokens(DumpsAsciiLen(notes)) <= SOFT_CAP_TOKENS

\* C14: when the estimate of the serialized input is at most the soft cap,
\* _truncate_notes returns the input list (same notes, same order, none
\* marked _trimmed), and applying it again to that result returns the same
\* list once more.
C14_UnderSoftCapUnchanged ==
    (tn.pc = "done" /\ UnderSoftCap(tn.input)) =>
        /\ tn.result = tn.input
        /\ \A i \in DOMAIN tn.result : ~tn.result[i].trimmed /\ tn.result[i].excerpt = 0

\* C14 witness: the second application has returned, for an input within the
\* soft cap that has a note longer than the per-note threshold.
C14_Witness ==
    /\ tn.pc = "done"
    /\ tn.pass = 2
    /\ UnderSoftCap(tn.input)
    /\ \E i \in DOMAIN tn.input : NoteLen(tn.input[i]) > NOTE_SUMMARIZE_THRESHOLD
    /\ tn.result = tn.input

\* C19: the serialized notes embedded in the prompt of build_brief_from_notes
\* never have more than soft cap x characters per token = 44000 characters.
C19_NotesJsonWithinMaxBriefChars ==
    tn.pc \in {"prompt", "answered", "failed"} =>
        tn.notes_json <= SOFT_CAP_TOKENS * AVG_CHARS_PER_TOKEN

(***************************************************************************)
(* Claims about the approval flag                                          *)
(***************************************************************************)

\* Calls of run_literature_review (and of AcademicSearch.search) and calls
\* of the two orchestrator functions, each on its own.
InitReview == InitLit \/ InitResearch

NextReview == NextLit \/ NextResearch

SpecReview == InitReview /\ [][NextReview]_vars

\* run_literature_review has returned a review.
ReviewReturned ==
    /\ ac.pc = "done"
    /\ ac.entry = "run_literature_review"

\* C15: every review run_literature_review returns has approved = false, on
\* the zero-papers path and on the synthesis path; and no step of
\* run_research_with_literature (or run_research) changes the review object
\* it was given: approved, papers, summary, themes and gaps stay as they
\* were.
C15_ApprovedNeverSet ==
    /\ [](ReviewReturned => ac.review.approved = FALSE)
    /\ [][rr.pc # "idle" => rr'.literature_review = rr.literature_review]_vars

\* C15 witness: a run with an approved review of six papers has included it
\* and returned, the review still being what it was given.
C15_Witness ==
    /\ rr.pc = "done"
    /\ rr.result.literature_included
    /\ rr.literature_review.approved
    /\ Len(rr.literature_review.papers) = 6
    /\ rr.literature_review.themes = <<"t1">>

(***************************************************************************)
(* Claims about the entry points                                           *)
(***************************************************************************)

\* The step is a research-with-literature request on the stored session.
ResearchWithLiteratureStep ==
    /\ api'.last.op = "research-with-literature"
    /\ api'.last.status # 404

\* C16: a research-with-literature request on a session whose stored review
\* is absent, or present with approved not true, is answered with status
\* 400 and a reason, run_pipeline_with_literature is not invoked (no
\* external call is made), and the session is left as it was.
C16_UnapprovedRequestRefused ==
    [][(/\ ResearchWithLiteratureStep
        /\ ~(api.metadata.has_review /\ api.metadata.review.approved))
       => /\ api'.last.status = 400
          /\ api'.last.detail # ""
          /\ api'.last.calls = <<>>
          /\ api'.metadata = api.metadata]_vars

\* C16 witness: the request was refused on a session whose review is stored
\* but still pending approval.
C16_Witness ==
    /\ api.last.op = "research-with-literature"
    /\ api.last.status = 400
    /\ api.last.detail = "Literature review must be approved"
    /\ api.last.calls = <<>>
    /\ api.metadata.has_review
    /\ api.metadata.status = "pending_approval"
    /\ ~api.metadata.review.approved

\* C17: the agent tools run_research and run_academic_review and the
\* operations /research and /literature-review answer a request whose topic
\* is empty or blank with a failure and a reason, having made no LLM,
\* search or fetch call.
C17_BlankTopicRejected ==
    (/\ api.last.op \in {"run_research", "run_academic_review", "research",
                         "literature-review"}
     /\ api.last.status # 404
     /\ BlankTopic(api.last.topic))
    => /\ ~api.last.success
       /\ api.last.detail # ""
       /\ api.last.calls = <<>>

(***************************************************************************)
(* Claims about the OpenAlex abstract                                      *)
(***************************************************************************)

\* How many times position p is listed for word w in the index.
Listed(index, w, p) ==
    Cardinality({ <<i, k>> \in (DOMAIN index) \X (1..2) :
                      /\ index[i].word = w
                      /\ k \in DOMAIN index[i].positions.list
                      /\ index[i].positions.list[k] = p })

\* How many times the pair (p, w) occurs in a list of pairs.
Occurs(pairs, w, p) == Cardinality({ k \in DOMAIN pairs : pairs[k] = <<p, w>> })

\* The index of the example: {the: [0, 3], cat: [1]}.
ExampleIndex ==
    << IndexItem("the", [null |-> FALSE, list |-> <<0, 3>>]),
       IndexItem("cat", [null |-> FALSE, list |-> <<1>>]) >>

\* C18: for an inverted index whose words all have a list of positions, the
\* abstract has one word per (word, position) pair of the index, the words
\* are in ascending order of their positions and single spaces separate
\* them; {the: [0, 3], cat: [1]} gives "the cat the"; an absent or empty
\* index gives None.
C18_AbstractFromInvertedIndex ==
    ga.pc = "done" =>
        LET index == ga.item.index
            pairs == ga.word_positions
            text == ga.text
        IN  /\ (~ga.item.has_index \/ index = <<>>) => ga.none
            /\ (ga.item.has_index /\ index # <<>>
                   /\ \A i \in DOMAIN index : ~index[i].positions.null) =>
                  /\ ~ga.none
                  /\ \A w \in IndexWords, p \in 0..3 :
                        Occurs(pairs, w, p) = Listed(index, w, p)
                  /\ \A k \in 1..(Len(pairs) - 1) : pairs[k][1] <= pairs[k + 1][1]
                  /\ Len(text) = IF pairs = <<>> THEN 0 ELSE 2 * Len(pairs) - 1
                  /\ \A k \in DOMAIN pairs : text[2 * k - 1] = pairs[k][2]
                  /\ \A k \in 1..(Len(pairs) - 1) : text[2 * k] = " "
            /\ (ga.item.has_index /\ index = ExampleIndex) =>
                  text = <<"the", " ", "cat", " ", "the">>

\* C18 witness: the abstract of the example index has been rebuilt.
C18_Witness ==
    /\ ga.pc = "done"
    /\ ga.item.has_index
    /\ ga.item.index = ExampleIndex
    /\ ~ga.none
    /\ ga.text = <<"the", " ", "cat", " ", "the">>

(***************************************************************************)
(* Claims about the references of a run                                    *)
(***************************************************************************)

\* The DOI link, or else the url, of every paper that has one.
ContributingPaperRefs(papers) ==
    { DoiLink(papers[i].doi) : i \in { k \in DOMAIN papers : Truthy(papers[k].doi) } }
    \cup { papers[i].url :
               i \in { k \in DOMAIN papers : ~Truthy(papers[k].doi) /\ Truthy(papers[k].url) } }

\* The urls and DOI links that contributed to a returned run: the url of
\* every web note and, when the review was included, those of its papers.
ContributingRefs ==
    WebUrls(rr.result.notes)
    \cup (IF rr.result.literature_included
          THEN ContributingPaperRefs(rr.literature_review.papers) ELSE {})

\* C20 as stated: the entries of the references of a returned run are
\* exactly the url of every web hit that gave a note and, when an approved
\* review was included, the DOI (or else the url) of each of its papers.
C20_ReferencesAreContributors ==
    rr.pc = "done" => Range(rr.result.references) = ContributingRefs

\* C20 amended: the entries are exactly those urls and DOIs, plus the entry
\* "Uploaded Files" when non-empty additional context was passed.
C20_ReferencesAreContributorsAndUploads ==
    rr.pc = "done" =>
        Range(rr.result.references) =
            ContributingRefs
            \cup (IF rr.additional_context > 0 THEN {"Uploaded Files"} ELSE {})

\* C20 witness: a returned run with uploaded context, a web note and an
\* included review that has a paper with a DOI and a paper with a url only.
C20_Witness ==
    /\ rr.pc = "done"
    /\ rr.result.literature_included
    /\ rr.additional_context > 0
    /\ WebUrls(rr.result.notes) = {"https://a.example/1"}
    /\ rr.result.references =
           <<"Uploaded Files", "https://a.example/1", "https://doi.org/10.1/a",
             "https://doi.org/10.1/b", "https://openalex.org/W1">>

(***************************************************************************)
(* Claims about the search/fetch/extract loop                              *)
(***************************************************************************)

\* How many times name occurs in the external calls of the run.
CallCount(name) == Cardinality({i \in DOMAIN rr.calls : rr.calls[i] = name})

WebNoteCount(notes) == Cardinality({i \in DOMAIN notes : IsWebNote(notes[i])})

\* The number of queries of the plan in use.
PlanQueryCount ==
    IF rr.queries.t = "string" THEN Len(rr.queries.s) ELSE Len(rr.queries.v)

\* One pass of the inner loop body: a step taken at a hit.
HitStep == rr.pc = "hit" /\ rr' # rr

\* The counts of a run: no more than six searches, and exactly one for each
\* of the first six queries once the loop has ended; as many web notes as
\* extraction calls that returned.
LoopCounts ==
    rr.pc \in {"search", "hit", "brief", "done"} =>
        /\ CallCount("search") <= 6
        /\ rr.pc \in {"brief", "done"} =>
              CallCount("search") = (IF PlanQueryCount < 6 THEN PlanQueryCount ELSE 6)
        /\ WebNoteCount(rr.notes) = CallCount("extract_notes")
        /\ CallCount("extract_notes") <= CallCount("fetch_and_clean")

\* What one hit does to the calls, the notes and the references.
HitEffect ==
    LET url == rr.results[rr.r]
        survives == rr'.text.text /\ rr'.text.len >= 400
    IN  /\ url = "" =>
              /\ rr'.calls = rr.calls
              /\ rr'.notes = rr.notes
              /\ rr'.refs = rr.refs
        /\ (url # "" /\ ~survives) =>
              /\ rr'.calls = Append(rr.calls, "fetch_and_clean")
              /\ rr'.notes = rr.notes
              /\ rr'.refs = rr.refs
        /\ (url # "" /\ survives) =>
              /\ rr'.calls = rr.calls \o <<"fetch_and_clean", "extract_notes">>
              /\ rr'.pc # "raised" =>
                    /\ Len(rr'.notes) = Len(rr.notes) + 1
                    /\ SubSeq(rr'.notes, 1, Len(rr.notes)) = rr.notes
                    /\ IsWebNote(Last(rr'.notes))
                    /\ Last(rr'.notes).source_url = url
                    /\ rr'.refs = Append(rr.refs, url)

\* C21: only the first six queries of the plan are searched; a hit without
\* a url gives no fetch and no note; a fetch that returns nothing or fewer
\* than 400 characters gives no extraction call and no note; every other
\* hit gives one extract_notes call, one note and one reference entry, so
\* there are as many web notes as surviving pairs.
C21_LoopCountsHitsAndNotes ==
    /\ [](LoopCounts)
    /\ [][HitStep => HitEffect]_vars

\* C21 witness: a returned run whose plan had seven queries, of which six
\* were searched, with one fetch that was too short and one that gave the
\* only web note.
C21_Witness ==
    /\ rr.pc = "done"
    /\ PlanQueryCount = 7
    /\ CallCount("search") = 6
    /\ CallCount("fetch_and_clean") = 2
    /\ CallCount("extract_notes") = 1
    /\ WebNoteCount(rr.result.notes) = 1
    /\ "https://a.example/1" \in Range(rr.result.references)

(***************************************************************************)
(* Web search client: WebSearch.search in src/research/tavily_search.py.   *)
(*                                                                         *)
(* A provider response is the record [ok, kind, has_results, results]: ok  *)
(* is false for an HTTP error status, kind tells what the body is, and     *)
(* results is the list under "results" of a JSON object. An item of that   *)
(* list is a dict with or without "url" and with a "content" of so many    *)
(* characters (0: none).                                                   *)
(***************************************************************************)

\* Most items the "results" of one provider response have.
MaxProviderResults == 6

\* tavily_search.py 32: [:400]
SNIPPET_CHARS == 400

\* max_results: 5 from the orchestrator (orchestrator.py 118), 6 by default.
MaxResultsArgs == {5, 6}

ProviderItems ==
    { [has_url |-> TRUE, url |-> "https://a.example/1", content |-> 401],
      [has_url |-> FALSE, url |-> "", content |-> 0] }

ProviderResponses ==
    { [ok |-> ok, kind |-> kind, has_results |-> FALSE, results |-> <<>>] :
          ok \in BOOLEAN, kind \in {"not_json", "list", "object"} }
    \cup { [ok |-> TRUE, kind |-> "object", has_results |-> TRUE, results |-> results] :
               results \in UNION { [1..n -> ProviderItems] : n \in 0..MaxProviderResults } }

\* tavily_search.py 29-33: the hit made of one item.
SearchHit(item) ==
    [url |-> IF item.has_url THEN item.url ELSE "",
     snippet |-> IF item.content < SNIPPET_CHARS THEN item.content ELSE SNIPPET_CHARS]

\* tavily_search.py 28-35: one hit for each item of results.
Hits(results) == [i \in DOMAIN results |-> SearchHit(results[i])]

\* The locals of a call of search(query, max_results).
SearchCall(max_results) ==
    [pc |-> "post", max_results |-> max_results,
     response |-> [ok |-> FALSE, kind |-> "not_json", has_results |-> FALSE,
                   results |-> <<>>],
     error |-> None, result |-> None]

\* tavily_search.py 24: requests.post raises (no connection, timeout).
PostRaises ==
    /\ ws.pc = "post"
    /\ ws' = [ws EXCEPT !.pc = "raised", !.error = "RequestException"]
    /\ UNCHANGED <<rw, tn, ac, rr, fc, en, ga, api>>

\* tavily_search.py 24: the provider answers.
PostReturns ==
    /\ ws.pc = "post"
    /\ \E response \in ProviderResponses :
          ws' = [ws EXCEPT !.pc = "status", !.response = response]
    /\ UNCHANGED <<rw, tn, ac, rr, fc, en, ga, api>>

\* tavily_search.py 25, 36-38: raise_for_status raises and it is re-raised.
StatusRaises ==
    /\ ws.pc = "status"
    /\ ~ws.response.ok
    /\ ws' = [ws EXCEPT !.pc = "raised", !.error = "HTTPError"]
    /\ UNCHANGED <<rw, tn, ac, rr, fc, en, ga, api>>

\* tavily_search.py 26, 39-41: the body is no JSON, or no JSON object.
BodyRaises ==
    /\ ws.pc = "status"
    /\ ws.response.ok
    /\ ws.response.kind # "object"
    /\ ws' = [ws EXCEPT !.pc = "raised",
                        !.error = IF ws.response.kind = "not_json"
                                  THEN "JSONDecodeError" ELSE "AttributeError"]
    /\ UNCHANGED <<rw, tn, ac, rr, fc, en, ga, api>>

\* tavily_search.py 26-35: r.json().get("results", []) made into hits.
HitsReturned ==
    /\ ws.pc = "status"
    /\ ws.response.ok
    /\ ws.response.kind = "object"
    /\ ws' = [ws EXCEPT !.pc = "done",
                        !.result = Hits(ws.response.results)]
    /\ UNCHANGED <<rw, tn, ac, rr, fc, en, ga, api>>

InitSearch ==
    /\ \E max_results \in MaxResultsArgs : ws = SearchCall(max_results)
    /\ rw = Idle
    /\ tn = Idle
    /\ ac = Idle
    /\ rr = Idle
    /\ fc = Idle
    /\ en = Idle
    /\ ga = Idle
    /\ api = Idle

NextSearch == PostRaises \/ PostReturns \/ StatusRaises \/ BodyRaises \/ HitsReturned

SpecSearch == InitSearch /\ [][NextSearch]_vars

\* C25: whatever the provider answers, WebSearch.search returns no more
\* than max_results hits (a longer list of results is cut), so that a run
\* fetches at most 5 urls for each query.
C25_AtMostMaxResultsHits ==
    ws.pc = "done" => Len(ws.result) <= ws.max_results

(***************************************************************************)
(* Claims about the two orchestration functions                            *)
(***************************************************************************)

\* The call of run_research with the topic, the additional context and the
\* responses of a call of run_research_with_literature, at the same place:
\* run_research has no literature block and no literature_included key.
AsRunResearch(run) ==
    [run EXCEPT !.fn = "run_research",
                !.literature_review = NoReview,
                !.pc = IF @ = "literature" THEN "context" ELSE @,
                !.result = IF run.pc = "done"
                           THEN [@ EXCEPT !.has_literature_included = FALSE]
                           ELSE @]

\* C26: with no review or a review that is not approved, every step of
\* run_research_with_literature is the step run_research takes on the same
\* responses, or the test of the review, which changes nothing: the two make
\* the same external calls in the same order and return the same plan,
\* notes, brief and references.
C26_SameAsRunResearch ==
    [][(UnapprovedCall /\ rr' # rr) =>
          \/ AsRunResearch(rr') = AsRunResearch(rr)
          \/ ResearchStep(AsRunResearch(rr), AsRunResearch(rr'))]_vars

\* C26 witness: a returned call with a review that is not approved and has
\* papers, with uploaded context and a web note.
C26_Witness ==
    /\ rr.pc = "done"
    /\ UnapprovedCall
    /\ rr.literature_review.given
    /\ Len(rr.literature_review.papers) > 1
    /\ rr.additional_context > 0
    /\ rr.calls = <<"plan_queries", "search", "fetch_and_clean", "extract_notes",
                    "build_brief_from_notes">>
    /\ rr.result.references = <<"Uploaded Files", "https://a.example/1">>
    /\ AsRunResearch(rr).result.notes = rr.result.notes

(***************************************************************************)
(* Claims about the HTML stages of the fetcher                             *)
(***************************************************************************)

\* fetch_and_clean has returned for a page that was fetched (the request
\* and its status did not fail) and is no PDF by content type or url.
ReturnedHtmlPage ==
    /\ fc.pc = "returned"
    /\ "request" \notin Range(fc.failed)
    /\ "status" \notin Range(fc.failed)
    /\ ~(\E i \in DOMAIN fc.content_type : fc.content_type[i] = "pdf")
    /\ Last(LowerTokens(fc.url)) # ".pdf"

\* The readable text was extracted and has 200 characters or more.
ReadableEnough == fc.readable >= 200

\* C27 as stated: for a fetched page that is no PDF the readable text is
\* returned when it has at least 200 characters; otherwise the visible
\* text is returned whenever it is not empty, however short, and None is
\* returned only when the visible text is empty.
C27_ReadableElseVisibleText ==
    ReturnedHtmlPage =>
        /\ ReadableEnough => fc.result = Text("readability", fc.readable)
        /\ (~ReadableEnough /\ fc.visible > 0) => fc.result = Text("plain", fc.visible)
        /\ fc.result.none => fc.visible = 0

\* C27 amended: None is returned only when the visible text is empty or the
\* plain parse itself raised.
C27_ReadableElseVisibleTextUnlessParseFails ==
    ReturnedHtmlPage =>
        /\ ReadableEnough => fc.result = Text("readability", fc.readable)
        /\ (~ReadableEnough /\ fc.visible > 0) => fc.result = Text("plain", fc.visible)
        /\ fc.result.none => (fc.visible = 0 \/ "plain" \in Range(fc.failed))

\* C27 witness: the readable text has 199 characters and the 40 characters
\* of visible text are returned.
C27_Witness ==
    /\ ReturnedHtmlPage
    /\ fc.readable = 199
    /\ fc.visible = 40
    /\ fc.result = Text("plain", 40)

(***************************************************************************)
(* Phase 2 of the pipeline: run_pipeline_with_literature in                *)
(* src/pipeline.py, up to the return of run_research_with_literature.      *)
(*                                                                         *)
(* literature_review_data is the review dict the caller passes: a review   *)
(* and has_approved, which tells whether the dict has the key "approved".  *)
(***************************************************************************)

ReviewData ==
    { data \in [has_approved : BOOLEAN, review : Reviews] :
          data.has_approved \/ ~data.review.approved }

\* pipeline.py 145-151: the LiteratureReview made of the dict.
FromReviewData(data) ==
    [papers |-> data.review.papers, summary |-> data.review.summary,
     themes |-> data.review.themes, gaps |-> data.review.gaps,
     approved |-> TRUE, given |-> TRUE]

\* The locals of a call of run_pipeline_with_literature.
PipelineCall(topic, data, additional_context) ==
    [pc |-> "pipeline", topic |-> topic, literature_review_data |-> data,
     additional_context |-> additional_context, error |-> None]

\* pipeline.py 135-142: a prompt file or the configuration cannot be read.
PipelineSetupRaises ==
    /\ rr.pc = "pipeline"
    /\ rr' = [rr EXCEPT !.pc = "raised", !.error = "setup"]
    /\ UNCHANGED <<rw, tn, ac, fc, en, ga, api, ws>>

\* pipeline.py 145-161: run_research_with_literature is called with the
\* review made of the dict.
PipelineCallsResearch ==
    /\ rr.pc = "pipeline"
    /\ rr' = ResearchCall("run_research_with_literature", rr.topic,
                          FromReviewData(rr.literature_review_data),
                          rr.additional_context)
                 @@ [literature_review_data |-> rr.literature_review_data]
    /\ UNCHANGED <<rw, tn, ac, fc, en, ga, api, ws>>

InitPipeline ==
    /\ \E topic \in ResearchTopics, data \in ReviewData, additional_context \in Contexts :
          rr = PipelineCall(topic, data, additional_context)
    /\ rw = Idle
    /\ tn = Idle
    /\ ac = Idle
    /\ fc = Idle
    /\ en = Idle
    /\ ga = Idle
    /\ api = Idle
    /\ ws = Idle

\* The review the pipeline passes is approved: run_research_with_literature
\* never skips it.
NextPipeline ==
    \/ PipelineSetupRaises
    \/ PipelineCallsResearch
    \/ PlanReturns
    \/ PlanRaises
    \/ QueriesChosen
    \/ QueriesRaises
    \/ LiteratureIncluded
    \/ ContextAdded
    \/ ContextSkipped
    \/ LoopEntered
    \/ LoopRaises
    \/ SearchReturns
    \/ SearchRaises
    \/ HitWithoutUrl
    \/ HitWithoutText
    \/ HitExtracted
    \/ ExtractRaises
    \/ BriefReturns
    \/ BriefRaises

SpecPipeline == InitPipeline /\ [][NextPipeline]_vars

\* The dict passed to the pipeline has approved = true.
DataApproved(data) == data.has_approved /\ data.review.approved

\* C29: through run_pipeline_with_literature a review gives a note and
\* references (literature_included = true) only if the dict the caller
\* passed has approved = true; a dict with approved false or absent gives
\* nothing.
C29_OnlyApprovedDataIncluded ==
    rr.pc = "done" =>
        \/ DataApproved(rr.literature_review_data)
        \/ /\ ~rr.result.literature_included
           /\ \A i \in DOMAIN rr.result.notes : rr.result.notes[i].source # "literature_review"

(***************************************************************************)
(* Claims about the stored review of a session                             *)
(***************************************************************************)

\* C28: whatever literature-review, approve and research-with-literature
\* requests a session has had, its stored review has approved = true
\* exactly when literature_review_status is "approved"; a rejection after an
\* approval leaves the review unapproved, and a new literature review
\* leaves it unapproved and pending.
C28_ApprovedFlagMatchesStatus ==
    api.pc = "ready" /\ api.metadata.has_review =>
        (api.metadata.review.approved <=> api.metadata.status = "approved")

\* A POST /research request was answered in this step.
ApiResearchAnswered == api.pc = "ready" /\ api' # api /\ api'.last.op = "research"

\* C30: a /research request leaves the literature_review and the
\* literature_review_status of the session as they were, so that a review
\* approved before it is still accepted afterwards.
C30_ResearchKeepsReview ==
    [][ApiResearchAnswered =>
          /\ api'.metadata.has_review = api.metadata.has_review
          /\ api'.metadata.review = api.metadata.review
          /\ api'.metadata.status = api.metadata.status]_vars

====
